---- MODULE Spec2Model ----
(***************************************************************************)
(* Model of the MCP protocol handler                                       *)
(* (src/mcp-google-notion-server/src/protocol/handler.py) together with    *)
(* the message shapes of protocol/messages.py it validates against.        *)
(*                                                                         *)
(* asyncio is single-threaded and cooperative: a coroutine runs without    *)
(* interruption from one `await` that really suspends to the next.  Every  *)
(* action below is one such uninterrupted stretch of code.                 *)
(***************************************************************************)
EXTENDS Integers, Sequences, FiniteSets, TLC

\* ------------------------------------------------------------------ bounds
MaxCalls == 2          \* send_request invocations
MaxStarts == 2         \* consumption tasks ever created by start()
MaxFrames == 3         \* frames the peer sends before it closes the stream

\* ------------------------------------------------- tenacity retry policies
\* stop_after_attempt(3) of WebSocketTransport.connect and of
\* HttpTransport.send_message
StopAfterAttempt == 3

\* ------------------------------------------------- messages.py: ErrorCode
INVALID_REQUEST == -32600
METHOD_NOT_FOUND == -32601
INTERNAL_ERROR == -32603
INVALID_PARAMS == -32602

\* ------------------------------------------------------------ JSON values
\* A JSON id as Python sees it.  t = "absent": the key is missing;
\* "null": JSON null (None); "int" / "str": the two types MCPRequest.id and
\* MCPResponse.id accept; "other": any other JSON type (a list, 1.5, ...).
AbsentId == [t |-> "absent", n |-> 0, s |-> ""]
NullId == [t |-> "null", n |-> 0, s |-> ""]
OtherId == [t |-> "other", n |-> 0, s |-> ""]
IntId(n) == [t |-> "int", n |-> n, s |-> ""]
StrId(s) == [t |-> "str", n |-> 0, s |-> s]

Digit == <<"0", "1", "2", "3", "4", "5", "6", "7", "8", "9">>

\* Python's str() of a non-negative int: its decimal digits.
RECURSIVE IntToStr(_)
IntToStr(n) ==
    IF n < 10 THEN Digit[n + 1]
    ELSE IntToStr(n \div 10) \o Digit[(n % 10) + 1]

\* str(x) for x a validated id (Union[str, int]): a str is itself, an int
\* is its decimal representation.
PyStr(id) == IF id.t = "int" THEN IntToStr(id.n) ELSE id.s

\* MCPError, or its absence.
NoError == [code |-> 0, message |-> ""]
MkError(code, message) == [code |-> code, message |-> message]

\* A decoded message as the transport yields it.  dict = FALSE: the JSON
\* value is not an object.  "absent" marks a missing key.  params and
\* result name a mapping ("{}" is the empty one), "null" is JSON null and
\* "nonmap" a JSON value that is no mapping; method "nonstr" is a JSON value
\* that is no string.
Msg(jsonrpc, id, method, params, result, error) ==
    [dict |-> TRUE, jsonrpc |-> jsonrpc, id |-> id, method |-> method,
     params |-> params, result |-> result, error |-> error]

NotADict ==
    [dict |-> FALSE, jsonrpc |-> "absent", id |-> AbsentId, method |-> "absent",
     params |-> "absent", result |-> "absent", error |-> NoError]

\* model_dump(exclude_none=True) of the three outbound shapes.
RequestMsg(id, method, params) ==
    Msg("2.0", id, method, params, "absent", NoError)
NotificationMsg(method, params) ==
    Msg("2.0", AbsentId, method, params, "absent", NoError)
ResultResponse(id, result) ==
    Msg("2.0", id, "absent", "absent", result, NoError)
ErrorResponse(id, error) ==
    Msg("2.0", id, "absent", "absent", "absent", error)

HasKey(v) == v # "absent"

\* MCPResponse(id=..., result=..., error=...).model_dump(exclude_none=True):
\* a field that is None is left out.
ResponseMsg(id, result, error) ==
    Msg("2.0", id, "absent", "absent",
        IF result \in {"absent", "null"} THEN "absent" ELSE result, error)

\* ------------------------------------------------- messages.py validation
\* Union[str, int]
ValidId(id) == id.t \in {"int", "str"}
\* str (required)
ValidMethod(m) == m \notin {"absent", "nonstr"}
\* Optional[Dict[str, Any]]
ValidMapping(v) == v # "nonmap"
\* The value pydantic stores for an Optional field: absent and null are None.
IsNone(v) == v \in {"absent", "null"}

\* mutant: any protocol version, or none, is accepted
VersionOk_Any(jsonrpc) == jsonrpc \in {"absent", "1.0", "2.0"}

\* The protocol version is the literal "2.0": the pattern of
\* MCPMessage.jsonrpc, and the comparison _process_message makes first.
VersionOk(jsonrpc) == jsonrpc = "2.0"

\* MCPRequest.model_validate(raw) succeeds
ValidRequest(raw) ==
    /\ VersionOk(raw.jsonrpc)
    /\ ValidId(raw.id)
    /\ ValidMethod(raw.method)
    /\ ValidMapping(raw.params)

\* mutant: model_post_init lets a Response with both fields pass
PostInitOk_AllowsBoth(result, error) ==
    ~(IsNone(result) /\ error = NoError)

\* MCPResponse.model_post_init: exactly one of result / error is present.
PostInitOk(result, error) ==
    /\ ~(IsNone(result) /\ error = NoError)
    /\ ~(~IsNone(result) /\ error # NoError)

\* MCPResponse.model_validate(raw) / MCPResponse(id=..., result=..., error=...)
\* succeeds.  A ValueError raised by model_post_init during validation is
\* reported by pydantic as a ValidationError.
ValidResponseFields(id, result, error) ==
    /\ ValidId(id)
    /\ ValidMapping(result)
    /\ PostInitOk(result, error)

ValidResponse(raw) ==
    VersionOk(raw.jsonrpc) /\ ValidResponseFields(raw.id, raw.result, raw.error)

\* MCPNotification.model_validate(raw) succeeds
ValidNotification(raw) ==
    /\ VersionOk(raw.jsonrpc)
    /\ ValidMethod(raw.method)
    /\ ValidMapping(raw.params)

\* `x or {}` for x an Optional mapping: None and the empty mapping are falsy.
OrEmpty(v) == IF IsNone(v) \/ v = "{}" THEN "{}" ELSE v

\* mutant: a missing id is read as the id 0
RawGetId_MissingIsZero(raw) == IF raw.id.t = "absent" THEN IntId(0) ELSE raw.id

\* raw_message.get("id"): None when the key is missing or null.
RawGetId(raw) == IF raw.id.t = "absent" THEN NullId ELSE raw.id

\* ------------------------------------------------------------- exceptions
\* The exceptions a send_request caller can see.  kind names the raise site;
\* the other fields are what the message text is formatted from.
NoExc == [kind |-> "none", method |-> "", timeout |-> 0, code |-> 0, message |-> ""]
\* MessageError("Protocol handler not running")
NotRunningError ==
    [kind |-> "notrunning", method |-> "", timeout |-> 0, code |-> 0,
     message |-> "Protocol handler not running"]
\* MessageError("Protocol handler stopped")
StoppedError ==
    [kind |-> "stopped", method |-> "", timeout |-> 0, code |-> 0,
     message |-> "Protocol handler stopped"]
\* mutant: the message names the default timeout, not the call's
TimeoutError_DefaultTimeout(method, timeout) ==
    [kind |-> "timeout", method |-> method, timeout |-> 30, code |-> 0,
     message |-> "timed out"]

\* MessageError(f"Request {method} timed out after {timeout}s")
TimeoutError(method, timeout) ==
    [kind |-> "timeout", method |-> method, timeout |-> timeout, code |-> 0,
     message |-> "timed out"]
\* mutant: the error raised names neither code nor message of the remote one
RpcError_Generic(error) ==
    [kind |-> "rpc", method |-> "", timeout |-> 0, code |-> 0,
     message |-> "RPC Error"]

\* MessageError(f"RPC Error {code}: {message}")
RpcError(error) ==
    [kind |-> "rpc", method |-> "", timeout |-> 0, code |-> error.code,
     message |-> error.message]
\* what transport.send_message raises (MessageError / ConnectionError)
SendError ==
    [kind |-> "send", method |-> "", timeout |-> 0, code |-> 0,
     message |-> "Failed to send message"]

\* what MCPResponse(id=..., result=..., error=...) raises in send_response
ResponseInvalidError ==
    [kind |-> "validation", method |-> "", timeout |-> 0, code |-> 0,
     message |-> "validation error"]

\* asyncio.CancelledError delivered to the caller of send_request
CallerCancelledError ==
    [kind |-> "cancelled", method |-> "", timeout |-> 0, code |-> 0,
     message |-> ""]

\* asyncio.Future: pending, or done with a result, an exception, or cancelled.
PendingFuture == [st |-> "pending", val |-> "", exc |-> NoExc]
NoFuture == [st |-> "none", val |-> "", exc |-> NoExc]
SetResult(val) == [st |-> "result", val |-> val, exc |-> NoExc]
SetException(exc) == [st |-> "exception", val |-> "", exc |-> exc]
CancelledFuture == [st |-> "cancelled", val |-> "", exc |-> NoExc]
\* Future.done()
Done(f) == f.st \in {"result", "exception", "cancelled"}

\* -------------------------------------------------------------- the state
Calls == 1..MaxCalls          \* the send_request invocations, in call order
Tasks == 1..MaxStarts         \* the consumption tasks, in creation order
MaxTools == 2                 \* Tool instances a ToolRegistry creates
Instances == 1..MaxTools      \* the Tool instances, in creation order
NoTask == 0

\* What the callers pass to send_request(method, params, timeout), call
\* after call; 30 is the default timeout.
CallArgs == <<[method |-> "tools/list", params |-> "{}", timeout |-> 30],
              [method |-> "slow", params |-> "P1", timeout |-> 5]>>
ArgsOf(c) == CallArgs[((c - 1) % Len(CallArgs)) + 1]

VARIABLES
    running,                \* ProtocolHandler._running
    sequence_number,        \* ProtocolHandler._sequence_number
    pending_requests,       \* ProtocolHandler._pending_requests: str -> Future,
                            \*   a Future named by the call that created it
    message_task,           \* ProtocolHandler._message_task (NoTask: None)
    request_handlers,       \* ProtocolHandler._request_handlers
    notification_handlers,  \* ProtocolHandler._notification_handlers
    task,                   \* the _message_loop tasks start() has created
    call,                   \* the send_request coroutines and their Futures
    stopper,                \* the stop() coroutine
    sent,                   \* what transport.send_message accepted during the
                            \*   step just taken, in order
    send_failed,            \* a transport.send_message call raised during it
    send_calls,             \* how many times transport.send_message was
                            \*   called during it
    raised,                 \* the exception with which the send_request,
                            \*   send_notification or send_response call made
                            \*   by the step just taken left it at once
    transport,              \* the Transport object: its class, _connected
    channel,                \* the inbound channel the transport reads:
                            \*   frames still to arrive, frames buffered,
                            \*   the coroutine waiting for data, end of input
    readers,                \* the coroutines iterating receive_messages()
    delivered,              \* the frames yielded to _message_loop, in order
    dropped,                \* the frames yielded to the transport's own
                            \*   _message_receiver and discarded by it
    codec,                  \* a message object on its way to the peer: the
                            \*   object, its wire form, what the receiver
                            \*   classifies and validates it as
    connector,              \* the caller of transport.connect()
    sender,                 \* the caller of transport.send_message()
    closer,                 \* the caller of transport.disconnect()
    polling,                \* HttpTransport.receive_messages: whether it has
                            \*   polled, and waited since its last poll
    server,                 \* the MCPServer: _running, _initialized, where
                            \*   its start(), stop() and _delayed_shutdown()
                            \*   coroutines stand
    registry,               \* the ToolRegistry: _tool_classes, _tools
    tool                    \* the Tool instances create_tool has made

vars == <<running, sequence_number, pending_requests, message_task,
          request_handlers, notification_handlers, task, call, stopper,
          sent, send_failed, send_calls, raised,
          transport, channel, readers, delivered, dropped, codec,
          connector, sender, closer, polling, server, registry, tool>>

\* what the calls made on the transport and the peer beyond it keep
toolVars == <<server, registry, tool>>
lifeVars == <<connector, sender, closer, polling, toolVars>>
callVars == <<codec, lifeVars>>

transportVars == <<transport, channel, readers, delivered, dropped, callVars>>

handlerVars == <<request_handlers, notification_handlers>>

\* a step that calls transport.send_message not at all
NoSend ==
    /\ sent' = << >>
    /\ send_failed' = FALSE
    /\ send_calls' = 0
    /\ raised' = NoExc

EmptyTable == [k \in {} |-> 0]
Put(table, k, v) == [x \in (DOMAIN table) \cup {k} |-> IF x = k THEN v ELSE table[x]]
\* dict.pop(k, None)
\* mutant: the entry is left in the table
Pop_Keeps(table, k) == table

Pop(table, k) == [x \in (DOMAIN table) \ {k} |-> table[x]]
\* dict.get(k) for a table of calls: the call, or 0 for None
Get(table, k) == IF k \in DOMAIN table THEN table[k] ELSE 0
\* dict.get(k) is not None
Has(table, k) == k \in DOMAIN table

NoMsg == NotADict
IdleTask ==
    [st |-> "unborn", cancel |-> FALSE, msg |-> NoMsg, kind |-> "none",
     handler |-> "none"]
IdleCall ==
    [pc |-> "idle", id |-> 0, method |-> "", timeout |-> 0,
     future |-> NoFuture, result |-> "", exc |-> NoExc]

\* ProtocolHandler.__init__
HandlerInit ==
    /\ running = FALSE
    /\ sequence_number = 0
    /\ pending_requests = EmptyTable
    /\ message_task = NoTask
    /\ request_handlers = EmptyTable
    /\ notification_handlers = EmptyTable
    /\ task = [t \in Tasks |-> IdleTask]
    /\ call = [c \in Calls |-> IdleCall]
    /\ stopper = [pc |-> "idle", task |-> NoTask]
    /\ sent = << >>
    /\ send_failed = FALSE
    /\ send_calls = 0
    /\ raised = NoExc

\* The coroutines that iterate transport.receive_messages(): the transport's
\* own _message_receiver task and the handler's _message_loop task.
Readers == {"receiver", "loop"}
NoReader == [st |-> "unborn", cause |-> "none"]

\* Transport.__init__: not connected, nothing read.  kind is the class of
\* the transport; "none" stands for a transport of which only send_message
\* and the messages it yields matter.
\* pending holds the ids of _pending_requests whose Future is not done;
\* failed the ids whose Future disconnect() has failed.
NewTransport(kind) ==
    [kind |-> kind, connected |-> FALSE, closed |-> FALSE, message_id |-> 0,
     pending |-> {}, failed |-> {}]
NewChannel(wire) ==
    [wire |-> wire, buffer |-> << >>, waiter |-> "none", eof |-> FALSE,
     abnormal |-> FALSE]

TransportInit(kind, wire) ==
    /\ transport = NewTransport(kind)
    /\ channel = NewChannel(wire)
    /\ readers = [r \in Readers |-> NoReader]
    /\ delivered = << >>
    /\ dropped = << >>

\* no message is under way to the peer
NoCodec == [stage |-> "none", obj |-> NoMsg, wire |-> NoMsg, as |-> "none",
            back |-> NoMsg]

\* A caller of connect(): attempts counts the attempts to establish the
\* channel, waits the backoff waits between them, found whether the call
\* found the transport connected, spawned whether it created a receive
\* task, exc names the exception that left the call.
IdleConnector ==
    [pc |-> "idle", attempts |-> 0, waits |-> 0, found |-> FALSE,
     spawned |-> FALSE, exc |-> "none"]
\* A caller of send_message(): attempts counts the executions of its body,
\* waits the backoff waits, io the writes or posts attempted, found as above.
IdleSender ==
    [pc |-> "idle", attempts |-> 0, waits |-> 0, io |-> 0, found |-> FALSE,
     exc |-> "none"]
\* A caller of disconnect(): what the call found: _connected, the receive
\* task alive, the ids pending.
IdleCloser ==
    [pc |-> "idle", found |-> FALSE, reader |-> FALSE, pending |-> {}]
\* The poll loop of HttpTransport.receive_messages: polled, whether it has
\* issued a GET; waited, whether it has slept poll_interval since the last
\* GET; batch, how many messages of the last response are still to be
\* yielded.
NoPoll == [polled |-> FALSE, waited |-> FALSE, batch |-> 0]

\* MCPServer.__init__: neither running nor initialized.  starter, stopper
\* and shutdown tell where the start() call, the stop() call and the
\* _delayed_shutdown task stand; failed tells that the last start() call
\* raised.
NewServer ==
    [running |-> FALSE, initialized |-> FALSE, starter |-> "idle",
     stopper |-> "idle", shutdown |-> "none", failed |-> FALSE]
\* What the last call made on a Tool or on the ToolRegistry did: the
\* instance (0: the registry), the method, whether it ran the subclass hook
\* (_initialize_impl, _cleanup_impl), whether it invoked execute, and how
\* it left ("returned" or the exception raised); for Tool.call also what
\* the call was given: the arguments, whether the tool was initialized,
\* what its _initialize_impl and its execute would do.
NoInput == [arguments |-> "none", was |-> FALSE, init_ok |-> FALSE,
            ex |-> "none"]
Did(inst, op, impl, executed, outcome) ==
    [inst |-> inst, op |-> op, impl |-> impl, executed |-> executed,
     outcome |-> outcome, input |-> NoInput]
NoOp == Did(0, "none", FALSE, FALSE, "none")
\* ToolRegistry.__init__: no classes, no instances.  tools lists the entries
\* of _tools in insertion order.
NewRegistry == [classes |-> {}, tools |-> << >>, last |-> NoOp]
\* Tool.__init__: an instance is not initialized ("unborn": not yet made)
NewTool == [st |-> "unborn", name |-> "", initialized |-> FALSE]

\* no call on the transport has been made
IdleLife ==
    /\ connector = IdleConnector
    /\ sender = IdleSender
    /\ closer = IdleCloser
    /\ polling = NoPoll
    /\ server = NewServer
    /\ registry = NewRegistry
    /\ tool = [i \in Instances |-> NewTool]

IdleCalls == codec = NoCodec /\ IdleLife

Init == HandlerInit /\ TransportInit("none", << >>) /\ IdleCalls

\* Task.done()
TaskDone(t) == task[t].st = "done"
\* a task that exists and has not finished
TaskAlive(t) == task[t].st \in {"recv", "handler"}

\* --------------------------------------------------------- start and stop
\* ProtocolHandler.start
Start ==
    /\ IF running
       THEN UNCHANGED vars
       ELSE /\ \E t \in Tasks :
                 /\ task[t].st = "unborn"
                 /\ \A u \in Tasks : u < t => task[u].st # "unborn"
                 /\ task' = [task EXCEPT ![t].st = "recv"]
                 /\ message_task' = t
            /\ running' = TRUE
            /\ UNCHANGED <<sequence_number, pending_requests, handlerVars, call, stopper>> /\ NoSend
    /\ UNCHANGED transportVars

\* handler.py 74-78: fail what is still pending, clear the table
FailPending(c) ==
    IF c \in {pending_requests[k] : k \in DOMAIN pending_requests}
       /\ ~Done(call[c].future)
    THEN [call[c] EXCEPT !.future = SetException(StoppedError)]
    ELSE call[c]

CancelPending ==
    /\ call' = [c \in Calls |-> FailPending(c)]
    /\ pending_requests' = EmptyTable

\* ProtocolHandler.stop up to its first suspension: `await self._message_task`
\* when the task is not done, the end of stop() otherwise.
StopBegin ==
    /\ stopper.pc = "idle"
    /\ IF ~running
       THEN UNCHANGED vars
       ELSE /\ running' = FALSE
            /\ IF message_task # NoTask /\ ~TaskDone(message_task)
               THEN /\ task' = [task EXCEPT ![message_task].cancel = TRUE]
                    /\ stopper' = [pc |-> "awaiting", task |-> message_task]
                    /\ UNCHANGED <<call, pending_requests>>
               ELSE /\ CancelPending
                    /\ UNCHANGED <<task, stopper>>
            /\ UNCHANGED <<sequence_number, message_task, handlerVars>> /\ NoSend
    /\ UNCHANGED transportVars

\* stop() resumes once the awaited task has finished.
StopFinish ==
    /\ stopper.pc = "awaiting"
    /\ TaskDone(stopper.task)
    /\ CancelPending
    /\ stopper' = [pc |-> "idle", task |-> NoTask]
    /\ UNCHANGED <<running, sequence_number, message_task, handlerVars, task>> /\ NoSend
    /\ UNCHANGED transportVars

\* A cancelled task gets CancelledError at the await it is suspended on;
\* nothing in _message_loop, _process_message or _handle_* catches it
\* (`except Exception` does not), so the task finishes.
TaskCancelled(t) ==
    /\ TaskAlive(t)
    /\ task[t].cancel
    /\ task' = [task EXCEPT ![t] = [st |-> "done", cancel |-> FALSE,
                                    msg |-> NoMsg, kind |-> "none",
                                    handler |-> "none"]]
    /\ UNCHANGED <<running, sequence_number, pending_requests, message_task, handlerVars, call, stopper>> /\ NoSend
    /\ UNCHANGED transportVars

\* ------------------------------------------------------------ send_request
\* mutant: the next id is one more than the number of table entries
NextSequenceNumber_FromTable == Cardinality(DOMAIN pending_requests) + 1

\* ProtocolHandler._next_sequence_number
NextSequenceNumber == sequence_number + 1

\* mutant: the key is the id itself, which no decimal string equals
TableKey_Uncanonical(request_id) == "int:" \o IntToStr(request_id)

\* The key a request id is filed under: str(request_id)
TableKey(request_id) == PyStr(IntId(request_id))

\* send_request(method, params, timeout) up to its first suspension: the raise
\* when the handler is not running; otherwise the id, the Future, the table
\* entry and transport.send_message, which either accepts the Request (the
\* caller then suspends in wait_for) or raises (the exception leaves
\* send_request through the finally clause, which pops the entry again).
\* Calls are numbered in call order.
SendRequest(c, args) ==
    /\ call[c].pc = "idle"
    /\ \A d \in Calls : d < c => call[d].pc # "idle"
    /\ IF ~running
       THEN /\ call' = [call EXCEPT ![c].pc = "raised",
                                    ![c].exc = NotRunningError,
                                    ![c].method = args.method,
                                    ![c].timeout = args.timeout]
            /\ UNCHANGED <<sequence_number, pending_requests>>
            /\ sent' = << >>
            /\ send_failed' = FALSE
            /\ send_calls' = 0
            /\ raised' = NotRunningError
       ELSE LET request_id == NextSequenceNumber
                started == [pc |-> "waiting", id |-> request_id,
                            method |-> args.method, timeout |-> args.timeout,
                            future |-> PendingFuture, result |-> "",
                            exc |-> NoExc]
                filed == Put(pending_requests, TableKey(request_id), c)
            IN  /\ sequence_number' = request_id
                /\ \/ /\ sent' = <<RequestMsg(IntId(request_id), args.method,
                                                args.params)>>
                      /\ send_failed' = FALSE
                      /\ send_calls' = 1
                      /\ raised' = NoExc
                      /\ call' = [call EXCEPT ![c] = started]
                      /\ pending_requests' = filed
                   \/ /\ sent' = << >>
                      /\ send_failed' = TRUE
                      /\ send_calls' = 1
                      /\ raised' = SendError
                      /\ call' = [call EXCEPT ![c] =
                             [started EXCEPT !.pc = "raised", !.exc = SendError]]
                      /\ pending_requests' = Pop(filed, TableKey(request_id))
    /\ UNCHANGED <<running, message_task, handlerVars, task, stopper>>
    /\ UNCHANGED transportVars

\* The timeout of wait_for elapses while the Future is still pending:
\* wait_for cancels the Future it waits on.
Timeout(c) ==
    /\ call[c].pc = "waiting"
    /\ call[c].future.st = "pending"
    /\ call' = [call EXCEPT ![c].future = CancelledFuture]
    /\ UNCHANGED <<running, sequence_number, pending_requests, message_task, handlerVars, task, stopper>> /\ NoSend
    /\ UNCHANGED transportVars

\* How send_request leaves `await asyncio.wait_for(future, timeout)` once
\* the Future is done (handler.py 101-105).
WaitOutcome(c) ==
    CASE call[c].future.st = "result" ->
             [pc |-> "returned", result |-> call[c].future.val, exc |-> NoExc]
      [] call[c].future.st = "exception" ->
             [pc |-> "raised", result |-> "", exc |-> call[c].future.exc]
      [] OTHER ->
             [pc |-> "raised", result |-> "",
              exc |-> TimeoutError(call[c].method, call[c].timeout)]

\* The caller is resumed: return or raise, then the finally clause.
Resume(c) ==
    /\ call[c].pc = "waiting"
    /\ Done(call[c].future)
    /\ call' = [call EXCEPT ![c].pc = WaitOutcome(c).pc,
                            ![c].result = WaitOutcome(c).result,
                            ![c].exc = WaitOutcome(c).exc]
    /\ pending_requests' = Pop(pending_requests, TableKey(call[c].id))
    /\ UNCHANGED <<running, sequence_number, message_task, handlerVars, task, stopper>> /\ NoSend
    /\ UNCHANGED transportVars

\* mutant: send_notification does not test _running
SendNotification_Unguarded(method, params) ==
    /\ sent' = <<NotificationMsg(method, params)>>
    /\ send_failed' = FALSE
    /\ send_calls' = 1
    /\ raised' = NoExc
    /\ UNCHANGED <<running, sequence_number, pending_requests, message_task,
                   handlerVars, task, call, stopper>>
    /\ UNCHANGED transportVars

\* The task that awaits send_request is cancelled while the call is
\* suspended in wait_for: CancelledError is raised at the await, wait_for
\* cancels the Future if it is not done, and the finally clause pops the id.
\* (A call whose Future is already done may instead complete as in Resume.)
CallerCancelled(c) ==
    /\ call[c].pc = "waiting"
    /\ call' = [call EXCEPT ![c].pc = "raised",
                            ![c].exc = CallerCancelledError,
                            ![c].future = IF Done(@) THEN @ ELSE CancelledFuture]
    /\ pending_requests' = Pop(pending_requests, TableKey(call[c].id))
    /\ UNCHANGED <<running, sequence_number, message_task, handlerVars, task,
                   stopper>>
    /\ NoSend
    /\ UNCHANGED transportVars

\* send_notification(method, params), called by user code: the raise when
\* the handler is not running, otherwise one transport.send_message call,
\* which accepts the Notification or raises.
SendNotification(method, params) ==
    /\ IF ~running
       THEN /\ sent' = << >>
            /\ send_failed' = FALSE
            /\ send_calls' = 0
            /\ raised' = NotRunningError
       ELSE \/ /\ sent' = <<NotificationMsg(method, params)>>
               /\ send_failed' = FALSE
               /\ send_calls' = 1
               /\ raised' = NoExc
            \/ /\ sent' = << >>
               /\ send_failed' = TRUE
               /\ send_calls' = 1
               /\ raised' = SendError
    /\ UNCHANGED <<running, sequence_number, pending_requests, message_task,
                   handlerVars, task, call, stopper>>
    /\ UNCHANGED transportVars

\* send_response(request_id, result, error), called by user code: the raise
\* when the handler is not running, the raise of the MCPResponse constructor
\* when the fields are invalid, otherwise one transport.send_message call.
SendResponse(request_id, result, error) ==
    /\ IF ~running
       THEN /\ sent' = << >>
            /\ send_failed' = FALSE
            /\ send_calls' = 0
            /\ raised' = NotRunningError
       ELSE IF ~ValidResponseFields(request_id, result, error)
       THEN /\ sent' = << >>
            /\ send_failed' = FALSE
            /\ send_calls' = 0
            /\ raised' = ResponseInvalidError
       ELSE \/ /\ sent' = <<ResponseMsg(request_id, result, error)>>
               /\ send_failed' = FALSE
               /\ send_calls' = 1
               /\ raised' = NoExc
            \/ /\ sent' = << >>
               /\ send_failed' = TRUE
               /\ send_calls' = 1
               /\ raised' = SendError
    /\ UNCHANGED <<running, sequence_number, pending_requests, message_task,
                   handlerVars, task, call, stopper>>
    /\ UNCHANGED transportVars

\* ------------------------------------------------------ handler registry
Methods == {"tools/list"}      \* the methods user code registers handlers for
HandlerIds == {"h1", "h2"}        \* the callables user code registers

\* mutant: a method that has a handler keeps it
RegisterRequestHandler_KeepsFirst(method, handler) ==
    /\ request_handlers' = IF Has(request_handlers, method)
                           THEN request_handlers
                           ELSE Put(request_handlers, method, handler)
    /\ UNCHANGED <<running, sequence_number, pending_requests, message_task, notification_handlers, task, call, stopper>> /\ NoSend
    /\ UNCHANGED transportVars

\* ProtocolHandler.register_request_handler
RegisterRequestHandler(method, handler) ==
    /\ request_handlers' = Put(request_handlers, method, handler)
    /\ UNCHANGED <<running, sequence_number, pending_requests, message_task, notification_handlers, task, call, stopper>> /\ NoSend
    /\ UNCHANGED transportVars

\* ProtocolHandler.register_notification_handler
RegisterNotificationHandler(method, handler) ==
    /\ notification_handlers' = Put(notification_handlers, method, handler)
    /\ UNCHANGED <<running, sequence_number, pending_requests, message_task, request_handlers, task, call, stopper>> /\ NoSend
    /\ UNCHANGED transportVars

\* ProtocolHandler.unregister_handler
UnregisterHandler(method) ==
    /\ request_handlers' = Pop(request_handlers, method)
    /\ notification_handlers' = Pop(notification_handlers, method)
    /\ UNCHANGED <<running, sequence_number, pending_requests, message_task, task, call, stopper>> /\ NoSend
    /\ UNCHANGED transportVars

\* ------------------------------------------------- replies to the peer
\* One call of send_response / _send_error_response made while a message is
\* processed.  mode "skip": _send_error_response returns at once because
\* request_id is None.  mode "try": send_response is entered; ok tells
\* whether MCPResponse(...) can be constructed.
Skip == [mode |-> "skip", ok |-> FALSE, msg |-> NoMsg]
Try(id, result, error) ==
    [mode |-> "try",
     ok |-> ValidResponseFields(id, result, error),
     msg |-> ResponseMsg(id, result, error)]

\* ProtocolHandler._send_error_response(request_id, code, message)
SendErrorResponse(request_id, code, message) ==
    IF request_id.t = "null" THEN Skip
    ELSE Try(request_id, "absent", MkError(code, message))

\* What str(e) is when send_response(...) for attempt a raises.
FailureText(a) ==
    IF ~running THEN "Protocol handler not running"
    ELSE IF ~a.ok THEN "validation error"
    ELSE "Failed to send message"

\* The replies attempted one after the other, each attempted only because
\* the one before it raised, and what can come of them: send_response
\* raises without calling the transport when the handler is not running or
\* the MCPResponse is invalid; otherwise transport.send_message is called
\* and either accepts the message or raises.
RECURSIVE Outcomes(_, _)
Outcomes(chain, fails) ==
    IF chain = << >> \/ Head(chain).mode = "skip"
    THEN {[out |-> << >>, fails |-> fails]}
    ELSE IF ~running \/ ~Head(chain).ok
    THEN Outcomes(Tail(chain), fails)
    ELSE {[out |-> <<Head(chain).msg>>, fails |-> fails]}
             \cup Outcomes(Tail(chain), fails + 1)

Transmit(chain) ==
    \E o \in Outcomes(chain, 0) :
        /\ send_failed' = (o.fails > 0)
        /\ send_calls' = Len(o.out) + o.fails
        /\ raised' = NoExc
        /\ sent' = o.out

\* _process_message 185-191: `except Exception` replies INTERNAL_ERROR to
\* raw_message.get("id").
InternalErrorReply(raw) ==
    SendErrorResponse(RawGetId(raw), INTERNAL_ERROR, "Internal error")

\* ------------------------------------------------------------- dispatch
\* _process_message 157-175: which branch a decoded message takes.
Classify(raw) ==
    IF ~raw.dict THEN "notdict"
    ELSE IF ~VersionOk(raw.jsonrpc) THEN "badversion"
    ELSE IF raw.id.t # "absent"
         THEN IF HasKey(raw.method) THEN "request" ELSE "response"
    ELSE IF HasKey(raw.method) THEN "notification"
    ELSE "invalid"

\* _handle_request 231-237 and what follows when that reply raises: a
\* ValidationError (the id is of no valid type) is caught at 177, anything
\* else at 185.
InvalidRequestChain(raw) ==
    <<SendErrorResponse(RawGetId(raw), INVALID_REQUEST, "Invalid request format"),
      IF ValidId(raw.id) \/ ~running
      THEN InternalErrorReply(raw)
      ELSE SendErrorResponse(RawGetId(raw), INVALID_REQUEST, "Invalid request")>>

\* mutant: a Request for a method without handler is dropped silently
MethodNotFoundChain_Silent(raw) == << >>

\* _handle_request 206-212, then 185-191 if that reply raises.
MethodNotFoundChain(raw) ==
    <<SendErrorResponse(raw.id, METHOD_NOT_FOUND,
                        "Method '" \o raw.method \o "' not found"),
      InternalErrorReply(raw)>>

\* _handle_request 216-217 after the handler returned `result`, then 219-229
\* if send_response raises, then 185-191 if that raises too.
HandlerResultChain(raw, result) ==
    LET first == Try(StrId(PyStr(raw.id)), result, NoError) IN
    <<first,
      SendErrorResponse(raw.id, INTERNAL_ERROR, FailureText(first)),
      InternalErrorReply(raw)>>

\* _handle_request 219-229 after the handler raised, then 185-191.
HandlerErrorChain(raw, text) ==
    <<SendErrorResponse(raw.id, INTERNAL_ERROR, text), InternalErrorReply(raw)>>

\* ProtocolHandler._handle_response: the Future a valid Response completes
\* (0: none) and what it completes it with.
\* mutant: the Response completes the oldest pending Future, whatever its id
ResponseTarget_OldestPending(raw) ==
    LET open == {c \in {pending_requests[k] : k \in DOMAIN pending_requests} :
                    ~Done(call[c].future)} IN
    IF ~ValidResponse(raw) \/ open = {} THEN 0
    ELSE CHOOSE c \in open : \A d \in open : c <= d

\* mutant: a Future that is already done is completed again
ResponseTarget_IgnoresDone(raw) ==
    LET c == Get(pending_requests, PyStr(raw.id)) IN
    IF ~ValidResponse(raw) THEN 0 ELSE c

ResponseTarget(raw) ==
    LET c == Get(pending_requests, PyStr(raw.id)) IN
    IF ~ValidResponse(raw) THEN 0
    ELSE IF c = 0 \/ Done(call[c].future) THEN 0
    ELSE c

\* mutant: the result of the Response is dropped
ResponseCompletion_DropsResult(raw) ==
    IF raw.error # NoError THEN SetException(RpcError(raw.error))
    ELSE SetResult("{}")

ResponseCompletion(raw) ==
    IF raw.error # NoError THEN SetException(RpcError(raw.error))
    ELSE SetResult(OrEmpty(raw.result))

HandleResponse(raw) ==
    LET c == ResponseTarget(raw) IN
    IF c = 0 THEN UNCHANGED call
    ELSE call' = [call EXCEPT ![c].future = ResponseCompletion(raw)]

\* mutant: the loop ends with the message it has processed
BackToRecv_LoopEnds ==
    [st |-> "done", cancel |-> FALSE, msg |-> NoMsg, kind |-> "none",
     handler |-> "none"]

\* _message_loop 143-146: whatever _process_message did or raised, the loop
\* takes the next message.
BackToRecv ==
    [st |-> "recv", cancel |-> FALSE, msg |-> NoMsg, kind |-> "none",
     handler |-> "none"]

\* One iteration of _message_loop: the transport yields raw and
\* _process_message runs up to the point where it awaits a registered
\* handler, or to its end when no handler is called.
Receive(t, raw) ==
    /\ task[t].st = "recv"
    /\ ~task[t].cancel
    /\ UNCHANGED <<running, sequence_number, pending_requests, message_task,
                   handlerVars, stopper>>
    /\ CASE Classify(raw) = "notdict" ->
               UNCHANGED <<task, call>> /\ NoSend
         [] Classify(raw) \in {"badversion", "invalid"} ->
               /\ Transmit(<<InternalErrorReply(raw)>>)
               /\ UNCHANGED <<task, call>>
         [] Classify(raw) = "request" ->
               IF ~ValidRequest(raw)
               THEN /\ Transmit(InvalidRequestChain(raw))
                    /\ UNCHANGED <<task, call>>
               ELSE IF ~Has(request_handlers, raw.method)
               THEN /\ Transmit(MethodNotFoundChain(raw))
                    /\ UNCHANGED <<task, call>>
               ELSE /\ task' = [task EXCEPT ![t].st = "handler", ![t].msg = raw,
                                            ![t].kind = "request",
                                            ![t].handler =
                                                request_handlers[raw.method]]
                    /\ UNCHANGED <<call>> /\ NoSend
         [] Classify(raw) = "response" ->
               /\ HandleResponse(raw)
               /\ UNCHANGED <<task>> /\ NoSend
         [] Classify(raw) = "notification" ->
               IF ValidNotification(raw)
                  /\ Has(notification_handlers, raw.method)
               THEN /\ task' = [task EXCEPT ![t].st = "handler", ![t].msg = raw,
                                            ![t].kind = "notification",
                                            ![t].handler =
                                                notification_handlers[raw.method]]
                    /\ UNCHANGED <<call>> /\ NoSend
               ELSE UNCHANGED <<task, call>> /\ NoSend
    /\ UNCHANGED transportVars

\* The awaited handler returns `result` (None: "null").
HandlerReturn(t, result) ==
    /\ task[t].st = "handler"
    /\ ~task[t].cancel
    /\ task' = [task EXCEPT ![t] = BackToRecv]
    /\ IF task[t].kind = "request"
       THEN Transmit(HandlerResultChain(task[t].msg, result))
       ELSE NoSend
    /\ UNCHANGED <<running, sequence_number, pending_requests, message_task,
                   handlerVars, call, stopper>>
    /\ UNCHANGED transportVars

\* The awaited handler raises the exception e.
HandlerRaise(t, e) ==
    /\ task[t].st = "handler"
    /\ ~task[t].cancel
    /\ task' = [task EXCEPT ![t] = BackToRecv]
    /\ IF task[t].kind = "request"
       THEN Transmit(HandlerErrorChain(task[t].msg, e.text))
       ELSE NoSend
    /\ UNCHANGED <<running, sequence_number, pending_requests, message_task,
                   handlerVars, call, stopper>>
    /\ UNCHANGED transportVars

\* transport.receive_messages() ends (the channel is closed) or raises:
\* _message_loop returns.
ReceiveEnd(t) ==
    /\ task[t].st = "recv"
    /\ ~task[t].cancel
    /\ task' = [task EXCEPT ![t].st = "done"]
    /\ UNCHANGED <<running, sequence_number, pending_requests, message_task, handlerVars, call, stopper>> /\ NoSend
    /\ UNCHANGED transportVars

\* ------------------------------------------------------------ transports
\* StdioTransport, WebSocketTransport, HttpTransport
TransportKinds == {"stdio", "websocket", "http"}
\* the two that read a stream and start a background reader in connect()
StreamKinds == {"stdio", "websocket"}

\* An inbound frame (a line of stdin, a WebSocket message, a polled body or
\* message): "object" is a JSON object, "garbage" is no valid JSON, "scalar"
\* is valid JSON that is no object (a number, an array, a string, null).
FrameKinds == {"object", "garbage", "scalar"}
Frame(n, kind) == [n |-> n, kind |-> kind]

\* What receive_messages() does with one frame.  stdio and websocket:
\* json.loads raising JSONDecodeError is caught and the loop continues;
\* for a value that is no object, message.get(...) in the logger.debug call
\* raises AttributeError, which only the outer `except Exception` catches
\* and re-raises as MessageError.  http: response.json() raising
\* JSONDecodeError is no httpx.HTTPError and reaches the outer clause too.
Decode(kind, frame) ==
    IF frame.kind = "object" THEN "yield"
    ELSE IF frame.kind = "garbage" /\ kind \in StreamKinds THEN "skip"
    ELSE "raise"

\* One attempt of a connect() call: the call itself, or its next attempt
\* after a backoff wait.  `connect` is the body: it returns at once when
\* the transport is connected; otherwise the channel is established (ok) or
\* not.  Established: _connected is set, _closed cleared, and stdio and
\* websocket create the task that runs _message_receiver.  Not established:
\* the body raises ConnectionError.  stdio and http surface it.  websocket
\* is wrapped in tenacity's retry (ConnectionError and OSError, up to
\* StopAfterAttempt attempts, exponential wait, reraise not set): the error
\* is followed by a wait and another attempt, and after the last attempt
\* tenacity raises RetryError.
ConnectAttempt(ok) ==
    /\ LET first == connector.pc # "backoff"
           c == IF first
                THEN [IdleConnector EXCEPT !.found = transport.connected]
                ELSE [connector EXCEPT !.waits = @ + 1]
           n == c.attempts + 1
       IN  IF transport.connected
           THEN /\ connector' = [c EXCEPT !.pc = "returned"]
                /\ UNCHANGED <<transport, readers>>
           ELSE IF ok
           THEN /\ connector' = [c EXCEPT !.pc = "returned", !.attempts = n,
                                          !.spawned =
                                              transport.kind \in StreamKinds]
                /\ transport' = [transport EXCEPT !.connected = TRUE,
                                                  !.closed = FALSE]
                /\ readers' = IF transport.kind \in StreamKinds
                              THEN [readers EXCEPT !["receiver"].st = "idle"]
                              ELSE readers
           ELSE /\ connector' =
                      IF transport.kind # "websocket"
                      THEN [c EXCEPT !.pc = "raised", !.attempts = n,
                                     !.exc = "ConnectionError"]
                      ELSE IF n < StopAfterAttempt
                      THEN [c EXCEPT !.pc = "backoff", !.attempts = n]
                      ELSE [c EXCEPT !.pc = "raised", !.attempts = n,
                                     !.exc = "RetryError"]
                /\ UNCHANGED <<transport, readers>>
    /\ UNCHANGED <<channel, delivered, dropped, codec, toolVars, sender, closer, polling>>
    /\ UNCHANGED <<running, sequence_number, pending_requests, message_task,
                   handlerVars, task, call, stopper>>
    /\ NoSend

\* connect() is called for the first time and establishes the channel at
\* its first attempt.
Connect ==
    /\ connector.pc = "idle"
    /\ ConnectAttempt(TRUE)

\* What the write, send or post of send_message comes to: accepted, an
\* error, or (websocket) ConnectionClosed.
SendOutcomes == {"ok", "error", "closed"}

\* One attempt of a send_message() call: the call itself, or its next
\* attempt after a backoff wait.  The body raises ConnectionError when the
\* transport is not connected, without I/O.  Otherwise it writes: an error
\* becomes MessageError; websocket's ConnectionClosed clears _connected and
\* becomes ConnectionError.  stdio and websocket surface what the body
\* raises.  http wraps the body in tenacity's retry with no exception filter
\* (every exception is retried, up to StopAfterAttempt attempts, exponential
\* wait, reraise not set): a raise is followed by a wait and another
\* attempt, and after the last attempt tenacity raises RetryError.
SendAttempt(outcome) ==
    /\ outcome = "closed" => transport.kind = "websocket"
    /\ LET first == sender.pc # "backoff"
           c == IF first
                THEN [IdleSender EXCEPT !.found = transport.connected]
                ELSE [sender EXCEPT !.waits = @ + 1]
           exc == IF ~transport.connected THEN "ConnectionError"
                  ELSE IF outcome = "ok" THEN "none"
                  ELSE IF outcome = "closed" THEN "ConnectionError"
                  ELSE "MessageError"
           d == [c EXCEPT !.attempts = @ + 1,
                          !.io = IF transport.connected THEN @ + 1 ELSE @]
       IN  /\ sender' =
                 IF exc = "none" THEN [d EXCEPT !.pc = "returned"]
                 ELSE IF transport.kind # "http"
                 THEN [d EXCEPT !.pc = "raised", !.exc = exc]
                 ELSE IF d.attempts < StopAfterAttempt
                 THEN [d EXCEPT !.pc = "backoff"]
                 ELSE [d EXCEPT !.pc = "raised", !.exc = "RetryError"]
           /\ transport' =
                 IF transport.connected /\ outcome = "closed"
                 THEN [transport EXCEPT !.connected = FALSE]
                 ELSE transport
    /\ UNCHANGED <<channel, readers, delivered, dropped, codec, toolVars, connector,
                   closer, polling>>
    /\ UNCHANGED <<running, sequence_number, pending_requests, message_task,
                   handlerVars, task, call, stopper>>
    /\ NoSend

\* Transport.send_request up to its wait for the response: the id is
\* taken and the Future filed; when send_message raises (the transport is
\* not connected) the finally clause takes the entry out again.
TransportSendRequest ==
    /\ ~transport.closed
    /\ transport.message_id < MaxCalls
    /\ LET id == transport.message_id + 1 IN
       transport' = [transport EXCEPT
                        !.message_id = id,
                        !.pending = IF transport.connected
                                    THEN @ \cup {id} ELSE @]
    /\ UNCHANGED <<channel, readers, delivered, dropped, callVars>>
    /\ UNCHANGED <<running, sequence_number, pending_requests, message_task,
                   handlerVars, task, call, stopper>>
    /\ NoSend

\* Transport.send_request: the wait for the response times out and the
\* finally clause takes the entry out.
TransportTimeout(id) ==
    /\ id \in transport.pending
    /\ transport' = [transport EXCEPT !.pending = @ \ {id}]
    /\ UNCHANGED <<channel, readers, delivered, dropped, callVars>>
    /\ UNCHANGED <<running, sequence_number, pending_requests, message_task,
                   handlerVars, task, call, stopper>>
    /\ NoSend

\* the receive task exists and is not done
ReceiverAlive == readers["receiver"].st \in {"idle", "waiting"}

\* Whether the teardown of the channel inside disconnect() raises.  stdio:
\* the StreamWriter is built on asyncio.streams.FlowControlMixin, whose
\* _get_close_waiter raises NotImplementedError, so wait_closed() always
\* raises.  http: AsyncClient.aclose() raises when the I/O fails.
TeardownRaises(io_ok) ==
    transport.kind = "stdio" \/ (transport.kind = "http" /\ ~io_ok)

\* disconnect(): returns at once when the transport is not connected.
\* Otherwise _connected is cleared and _closed set, the receive task is
\* cancelled, the channel is closed, every pending Future is failed with
\* ConnectionError("Connection closed") and the table cleared; an exception
\* on the way is logged and ends the call there.
Disconnect(io_ok) ==
    /\ closer' = [pc |-> "returned", found |-> transport.connected,
                  reader |-> ReceiverAlive, pending |-> transport.pending]
    /\ IF ~transport.connected
       THEN UNCHANGED <<transport, readers, channel>>
       ELSE /\ transport' =
                  [transport EXCEPT
                      !.connected = FALSE,
                      !.closed = TRUE,
                      !.pending = IF TeardownRaises(io_ok) THEN @ ELSE {},
                      !.failed = IF TeardownRaises(io_ok) THEN @
                                 ELSE @ \cup transport.pending]
            /\ readers' = IF ReceiverAlive
                          THEN [readers EXCEPT !["receiver"].st = "cancelled"]
                          ELSE readers
            /\ channel' = IF channel.waiter = "receiver"
                          THEN [channel EXCEPT !.waiter = "none"]
                          ELSE channel
    /\ UNCHANGED <<delivered, dropped, codec, toolVars, connector, sender, polling>>
    /\ UNCHANGED <<running, sequence_number, pending_requests, message_task,
                   handlerVars, task, call, stopper>>
    /\ NoSend

\* _message_loop reaches `async for ... in self.transport.receive_messages()`:
\* the generator raises ConnectionError when the transport is not connected,
\* which ends the loop.
LoopBegins ==
    /\ message_task # NoTask
    /\ task[message_task].st = "recv"
    /\ readers["loop"].st = "unborn"
    /\ IF transport.connected
       THEN /\ readers' = [readers EXCEPT !["loop"].st = "idle"]
            /\ UNCHANGED task
       ELSE /\ readers' = [readers EXCEPT !["loop"] =
                                [st |-> "failed", cause |-> "notconnected"]]
            /\ task' = [task EXCEPT ![message_task].st = "done"]
    /\ UNCHANGED <<transport, channel, delivered, dropped>>
    /\ UNCHANGED <<running, sequence_number, pending_requests, message_task,
                   handlerVars, call, stopper>>
    /\ NoSend
    /\ UNCHANGED callVars

\* The coroutine waiting for data, if any, is woken and will look at the
\* buffer again.
Woken(rs) ==
    IF channel.waiter = "none" THEN rs
    ELSE [rs EXCEPT ![channel.waiter].st = "idle"]

\* The next frame arrives from the peer.
Arrive ==
    /\ transport.connected
    /\ channel.wire # << >>
    /\ channel' = [channel EXCEPT !.wire = Tail(@),
                                  !.buffer = Append(@, Head(channel.wire)),
                                  !.waiter = "none"]
    /\ readers' = Woken(readers)
    /\ UNCHANGED <<transport, delivered, dropped>>
    /\ UNCHANGED <<running, sequence_number, pending_requests, message_task,
                   handlerVars, task, call, stopper>>
    /\ NoSend
    /\ UNCHANGED callVars

\* The peer closes the stream after the last frame: readline() returns
\* b"".  A WebSocket is closed with a close frame and code 1000 or 1001, or
\* abnormally (any other code, or the connection lost without a close
\* frame).
EndOfInput(abnormal) ==
    /\ transport.connected
    /\ transport.kind \in StreamKinds
    /\ abnormal => transport.kind = "websocket"
    /\ channel.wire = << >>
    /\ ~channel.eof
    /\ channel' = [channel EXCEPT !.eof = TRUE, !.abnormal = abnormal,
                                  !.waiter = "none"]
    /\ readers' = Woken(readers)
    /\ UNCHANGED <<transport, delivered, dropped>>
    /\ UNCHANGED <<running, sequence_number, pending_requests, message_task,
                   handlerVars, task, call, stopper>>
    /\ NoSend
    /\ UNCHANGED callVars

\* The next thing a reader of the WebSocket gets is the abnormal close.
ClosedAbnormally ==
    /\ transport.kind = "websocket"
    /\ channel.buffer = << >>
    /\ channel.eof
    /\ channel.abnormal

\* HttpTransport.receive_messages, one pass of `while not self._closed`
\* once the messages of the last response have been yielded.  The GET
\* fails with an httpx.HTTPError (~ok): logged, then asyncio.sleep of
\* poll_interval.  It succeeds: the response carries the first k messages
\* the server holds for the session; a body that is no JSON makes
\* response.json() raise, which reaches the outer `except Exception` and
\* ends the sequence with MessageError; with k = 0 the loop sleeps
\* poll_interval; with k > 0 the messages are yielded and the loop goes
\* straight to the next pass.
Poll(k, ok) ==
    /\ transport.kind = "http"
    /\ readers["loop"].st = "idle"
    /\ polling.batch = 0
    /\ k \in 0..Len(channel.buffer)
    /\ IF ok THEN (k = 0) = (channel.buffer = << >>) ELSE k = 0
    /\ \A i \in 2..k : channel.buffer[i].kind # "garbage"
    /\ k > 1 => channel.buffer[1].kind # "garbage"
    /\ LET garbled == ok /\ k = 1 /\ channel.buffer[1].kind = "garbage" IN
        IF transport.closed
        THEN /\ readers' = [readers EXCEPT !["loop"] =
                                 [st |-> "ended", cause |-> "none"]]
             /\ task' = [task EXCEPT ![message_task].st = "done"]
             /\ UNCHANGED <<channel, polling>>
        ELSE IF garbled
        THEN /\ readers' = [readers EXCEPT !["loop"] =
                                 [st |-> "failed", cause |-> "decode"]]
             /\ task' = [task EXCEPT ![message_task].st = "done"]
             /\ channel' = [channel EXCEPT !.buffer = Tail(@)]
             /\ polling' = [polled |-> TRUE, waited |-> FALSE, batch |-> 0]
        ELSE /\ polling' = [polled |-> TRUE, waited |-> ~ok \/ k = 0,
                            batch |-> k]
             /\ UNCHANGED <<readers, task, channel>>
    /\ UNCHANGED <<transport, delivered, dropped>>
    /\ UNCHANGED <<running, sequence_number, pending_requests, message_task,
                   handlerVars, call, stopper>>
    /\ NoSend
    /\ UNCHANGED <<codec, toolVars, connector, sender, closer>>

\* What becomes of reader r and of the channel when r asks for the next
\* frame (readline() / the WebSocket iterator / the next polled message).
\* With a frame buffered: the frame is taken and decoded.  With nothing
\* buffered on a stream: the sequence ends at end of input; the call raises
\* when another coroutine is already waiting for data (asyncio.StreamReader
\* and the WebSocket protocol allow one waiter), which receive_messages
\* re-raises as MessageError; otherwise r becomes the waiter.
ReadOutcome(r) ==
    IF channel.buffer # << >>
    THEN LET f == Head(channel.buffer)
             d == Decode(transport.kind, f)
         IN  [reader |-> IF d = "raise"
                         THEN [st |-> "failed", cause |-> "decode"]
                         ELSE readers[r],
              channel |-> [channel EXCEPT !.buffer = Tail(@)],
              yielded |-> IF d = "yield" THEN <<f.n>> ELSE << >>]
    ELSE IF channel.eof
    THEN [reader |-> [st |-> "ended", cause |-> "none"],
          channel |-> channel, yielded |-> << >>]
    ELSE IF channel.waiter # "none"
    THEN [reader |-> [st |-> "failed", cause |-> "concurrent"],
          channel |-> channel, yielded |-> << >>]
    ELSE [reader |-> [st |-> "waiting", cause |-> "none"],
          channel |-> [channel EXCEPT !.waiter = r], yielded |-> << >>]

\* Reader r asks for the next frame.  A frame yielded to _message_loop goes
\* to _process_message; one yielded to _message_receiver is looked up in the
\* transport's own pending table, which the Protocol Handler never fills,
\* and discarded.  When the sequence of _message_loop ends or raises, the
\* consumption task finishes.
\* On a WebSocket closed normally the iterator of the connection just
\* stops (it swallows ConnectionClosedOK) and receive_messages returns;
\* closed abnormally it raises ConnectionClosedError, which the
\* `except ConnectionClosed` clause answers with _connected = False and
\* nothing else: _pending_requests is not touched.  HttpTransport yields
\* the messages of the last response one by one.
Read(r) ==
    /\ readers[r].st = "idle"
    /\ transport.kind \in StreamKinds \/ polling.batch > 0
    /\ LET o == ReadOutcome(r) IN
        /\ readers' = [readers EXCEPT ![r] = o.reader]
        /\ channel' = o.channel
        /\ delivered' = IF r = "loop" THEN delivered \o o.yielded ELSE delivered
        /\ dropped' = IF r = "receiver" THEN dropped \o o.yielded ELSE dropped
        /\ task' = IF r = "loop" /\ o.reader.st \in {"ended", "failed"}
                   THEN [task EXCEPT ![message_task].st = "done"]
                   ELSE task
    /\ transport' = IF ClosedAbnormally
                    THEN [transport EXCEPT !.connected = FALSE]
                    ELSE transport
    /\ polling' = IF transport.kind = "http"
                  THEN [polling EXCEPT !.batch = @ - 1]
                  ELSE polling
    /\ UNCHANGED <<running, sequence_number, pending_requests, message_task,
                   handlerVars, call, stopper>>
    /\ NoSend
    /\ UNCHANGED <<codec, toolVars, connector, sender, closer>>

\* ------------------------------------------------- the wire round trip
\* A message object in memory: an MCPRequest, MCPResponse or
\* MCPNotification.  "absent" is a field that is None, AbsentId the id a
\* Notification does not have.
RequestObj(id, method, params) ==
    [kind |-> "request", id |-> id, method |-> method, params |-> params,
     result |-> "absent", error |-> NoError]
ResponseObj(id, result, error) ==
    [kind |-> "response", id |-> id, method |-> "absent", params |-> "absent",
     result |-> result, error |-> error]
NotificationObj(method, params) ==
    [kind |-> "notification", id |-> AbsentId, method |-> method,
     params |-> params, result |-> "absent", error |-> NoError]
InvalidObj ==
    [kind |-> "invalid", id |-> AbsentId, method |-> "absent",
     params |-> "absent", result |-> "absent", error |-> NoError]

\* json.dumps of an id: an int as its digits, a str between quotes.
JsonId(id) ==
    IF id.t = "int" THEN IntToStr(id.n)
    ELSE IF id.t = "str" THEN "\"" \o id.s \o "\""
    ELSE "null"

\* json.loads of that text
ParseId(text) ==
    IF text = "null" THEN NullId
    ELSE IF Head(text) = Head("\"")
    THEN StrId(SubSeq(text, 2, Len(text) - 1))
    ELSE IntId(CHOOSE n \in 0..99 : IntToStr(n) = text)

\* mutant: falsy fields, not only None fields, are left out of the dump
ModelDump_ExcludeFalsy(obj) ==
    LET drop(v) == IF v \in {"absent", "{}"} THEN "absent" ELSE v IN
    Msg("2.0", obj.id, obj.method, drop(obj.params), drop(obj.result),
        obj.error)

\* model_dump(exclude_none=True) of a message object
ModelDump(obj) ==
    CASE obj.kind = "request" -> RequestMsg(obj.id, obj.method, obj.params)
      [] obj.kind = "response" -> ResponseMsg(obj.id, obj.result, obj.error)
      [] obj.kind = "notification" -> NotificationMsg(obj.method, obj.params)

\* json.loads(json.dumps(message)): what the peer's transport yields
OverTheWire(msg) ==
    IF msg.id.t = "absent" THEN msg
    ELSE [msg EXCEPT !.id = ParseId(JsonId(msg.id))]

\* model_validate of the class the receiver's branch uses; a field that is
\* missing or null is None in the object.
ModelValidate(kind, raw) ==
    LET none(v) == IF IsNone(v) THEN "absent" ELSE v IN
    CASE kind = "request" /\ ValidRequest(raw) ->
             RequestObj(raw.id, raw.method, none(raw.params))
      [] kind = "response" /\ ValidResponse(raw) ->
             ResponseObj(raw.id, none(raw.result), raw.error)
      [] kind = "notification" /\ ValidNotification(raw) ->
             NotificationObj(raw.method, none(raw.params))
      [] OTHER -> InvalidObj

\* The sender dumps the object and hands it to its transport.
Encode ==
    /\ codec.stage = "object"
    /\ codec' = [codec EXCEPT !.stage = "wire",
                              !.wire = OverTheWire(ModelDump(codec.obj))]
    /\ UNCHANGED <<running, sequence_number, pending_requests, message_task,
                   handlerVars, task, call, stopper>>
    /\ UNCHANGED <<transport, channel, readers, delivered, dropped, lifeVars>>
    /\ NoSend

\* The receiver's _process_message classifies the message and validates it.
DecodeMessage ==
    /\ codec.stage = "wire"
    /\ codec' = [codec EXCEPT !.stage = "back",
                              !.as = Classify(codec.wire),
                              !.back = ModelValidate(Classify(codec.wire),
                                                     codec.wire)]
    /\ UNCHANGED <<running, sequence_number, pending_requests, message_task,
                   handlerVars, task, call, stopper>>
    /\ UNCHANGED <<transport, channel, readers, delivered, dropped, lifeVars>>
    /\ NoSend

\* ------------------------------------------------- what the peer may send
PeerError == MkError(-32001, "remote failure")

\* a method no handler is ever registered for
UnknownMethod == "resources/list"

RequestIds == {IntId(7), StrId("req-a"), NullId, OtherId}
ResponseIds ==
    {IntId(n) : n \in 1..(MaxCalls + 1)}
        \cup {StrId(IntToStr(n)) : n \in 1..(MaxCalls + 1)}
        \cup {StrId("01")}

InboundRequests ==
    {Msg("2.0", id, m, p, "absent", NoError) :
        id \in RequestIds, m \in Methods \cup {UnknownMethod, "nonstr"},
        p \in {"absent", "P1", "nonmap"}}

\* a result, an error, neither
InboundResponses ==
    {Msg("2.0", id, "absent", "absent", r, NoError) :
        id \in ResponseIds, r \in {"R1", "{}", "absent"}}
    \cup {Msg("2.0", id, "absent", "absent", "absent", PeerError) :
        id \in ResponseIds}

InboundNotifications ==
    {Msg("2.0", AbsentId, m, p, "absent", NoError) :
        m \in Methods \cup {UnknownMethod, "nonstr"},
        p \in {"absent", "nonmap"}}

\* no or another protocol version; neither id nor method; not an object
Malformed ==
    {Msg(v, id, m, "absent", "absent", NoError) :
        v \in {"absent", "1.0"},
        id \in {AbsentId, NullId, OtherId, IntId(7), StrId("req-a")},
        m \in {"absent"} \cup Methods}
    \cup {Msg("2.0", AbsentId, "absent", "absent", r, NoError) :
        r \in {"absent", "R1"}}
    \cup {NotADict}

StrayResponses ==
    {Msg("2.0", IntId(1), "absent", "absent", r, NoError) : r \in {"R1", "absent"}}

Inbound == InboundRequests \cup InboundNotifications \cup Malformed
               \cup StrayResponses

\* what user code passes to send_notification and send_response
OutboundMethods == {"notifications/progress"}
OutboundParams == {"absent", "P1"}
OutboundIds == {IntId(7), StrId("req-a")}
OutboundResults == {"absent", "R1", "{}"}
OutboundErrors == {NoError, PeerError}

HandlerResults == {"R1", "{}", "null"}
\* what a handler raises: text is str(e); code is the `code` attribute of a
\* ToolError (tools/base.py), 0 for an exception that has none
HandlerErrors ==
    {[text |-> "boom", code |-> 0],
     [text |-> "Tool input validation failed", code |-> INVALID_PARAMS]}

\* ------------------------------------------------------ the specification
\* Request/response correlation: callers use send_request while the handler
\* is started and stopped and the peer sends Responses of every shape.
Next ==
    \/ Start
    \/ StopBegin
    \/ StopFinish
    \/ \E t \in Tasks : TaskCancelled(t)
    \/ \E c \in Calls : SendRequest(c, ArgsOf(c))
    \/ \E c \in Calls : Timeout(c)
    \/ \E c \in Calls : Resume(c)
    \/ \E t \in Tasks, raw \in InboundResponses : Receive(t, raw)
    \/ \E t \in Tasks : ReceiveEnd(t)

Spec == Init /\ [][Next]_vars

\* Inbound dispatch: the peer sends messages of every shape while handlers
\* are registered and unregistered and the handler is started and stopped.
NextDispatch ==
    \/ Start
    \/ StopBegin
    \/ StopFinish
    \/ \E t \in Tasks : TaskCancelled(t)
    \/ \E m \in Methods, h \in HandlerIds : RegisterRequestHandler(m, h)
    \/ \E m \in Methods, h \in HandlerIds : RegisterNotificationHandler(m, h)
    \/ \E m \in Methods : UnregisterHandler(m)
    \/ \E t \in Tasks, raw \in Inbound : Receive(t, raw)
    \/ \E t \in Tasks, r \in HandlerResults : HandlerReturn(t, r)
    \/ \E t \in Tasks, e \in HandlerErrors : HandlerRaise(t, e)
    \/ \E t \in Tasks : ReceiveEnd(t)
    \/ \E id \in OutboundIds, r \in OutboundResults, e \in OutboundErrors :
            SendResponse(id, r, e)

SpecDispatch == Init /\ [][NextDispatch]_vars

\* Request/response correlation with callers that may also be cancelled.
NextExits ==
    \/ Next
    \/ \E c \in Calls : CallerCancelled(c)

SpecExits == Init /\ [][NextExits]_vars

\* Both directions at once: inbound Requests are dispatched to a registered
\* handler while send_request calls are outstanding and the peer answers them.
ReentrantInbound ==
    {RequestMsg(IntId(7), m, "P1") : m \in Methods}
        \cup {ResultResponse(IntId(n), "R1") : n \in 1..MaxCalls}

NextReentrant ==
    \/ Start
    \/ \E m \in Methods, h \in HandlerIds : RegisterRequestHandler(m, h)
    \/ \E t \in Tasks, raw \in ReentrantInbound : Receive(t, raw)
    \/ \E t \in Tasks, r \in HandlerResults : HandlerReturn(t, r)
    \/ \E t \in Tasks, e \in HandlerErrors : HandlerRaise(t, e)
    \/ \E c \in Calls : SendRequest(c, ArgsOf(c))
    \/ \E c \in Calls : Timeout(c)
    \/ \E c \in Calls : Resume(c)

SpecReentrant == Init /\ [][NextReentrant]_vars

\* A transport is connected, the handler is started on it, and the peer
\* sends frames of every kind and then closes the stream.
Wires ==
    UNION {[1..n -> FrameKinds] : n \in 1..MaxFrames}
InboundFrames(kinds) == [n \in DOMAIN kinds |-> Frame(n, kinds[n])]

InitTransport ==
    /\ HandlerInit
    /\ \E kind \in TransportKinds, kinds \in Wires :
            TransportInit(kind, InboundFrames(kinds))
    /\ IdleCalls

NextTransport ==
    \/ Connect
    \/ Start
    \/ LoopBegins
    \/ Arrive
    \/ \E abnormal \in BOOLEAN : EndOfInput(abnormal)
    \/ \E k \in 0..MaxFrames, ok \in BOOLEAN : Poll(k, ok)
    \/ \E r \in Readers : Read(r)

SpecTransport == InitTransport /\ [][NextTransport]_vars

\* The valid messages: ids of both types (0 and the empty string among
\* them), every optional field absent, empty and non-empty.
EncodableIds == {IntId(0), IntId(7), IntId(42), StrId(""), StrId("7"), StrId("req-a")}
EncodableMethods == {"tools/list", ""}
EncodableMappings == {"absent", "{}", "P1"}
ValidObjects ==
    {RequestObj(i, m, p) :
        i \in EncodableIds, m \in EncodableMethods, p \in EncodableMappings}
    \cup {ResponseObj(i, r, NoError) : i \in EncodableIds, r \in {"{}", "R1"}}
    \cup {ResponseObj(i, "absent", PeerError) : i \in EncodableIds}
    \cup {NotificationObj(m, p) :
             m \in EncodableMethods, p \in EncodableMappings}

InitRoundTrip ==
    /\ HandlerInit
    /\ TransportInit("none", << >>)
    /\ \E o \in ValidObjects :
           codec = [NoCodec EXCEPT !.stage = "object", !.obj = o]
    /\ IdleLife

NextRoundTrip ==
    \/ Encode
    \/ DecodeMessage

SpecRoundTrip == InitRoundTrip /\ [][NextRoundTrip]_vars

\* Re-registration: user code registers h1 for a method that has no
\* handler and h2 for a method that has one, while the peer sends Requests
\* and Notifications for the method.
RegistryInbound ==
    {Msg("2.0", id, m, p, "absent", NoError) :
        id \in {IntId(7), StrId("req-a"), AbsentId}, m \in Methods,
        p \in {"absent", "P1"}}

NextRegistry ==
    \/ Start
    \/ \E m \in Methods :
          ~Has(request_handlers, m) /\ RegisterRequestHandler(m, "h1")
    \/ \E m \in Methods :
          Has(request_handlers, m) /\ RegisterRequestHandler(m, "h2")
    \/ \E m \in Methods :
          ~Has(notification_handlers, m) /\ RegisterNotificationHandler(m, "h1")
    \/ \E m \in Methods :
          Has(notification_handlers, m) /\ RegisterNotificationHandler(m, "h2")
    \/ \E t \in Tasks, raw \in RegistryInbound : Receive(t, raw)
    \/ \E t \in Tasks, r \in HandlerResults : HandlerReturn(t, r)
    \/ \E t \in Tasks, e \in HandlerErrors : HandlerRaise(t, e)

SpecRegistry == Init /\ [][NextRegistry]_vars

\* Failures while messages are processed: send_request calls are in flight
\* while the peer sends Requests and Notifications whose handlers raise or
\* whose replies cannot be sent, messages of invalid shape, invalid
\* Responses to the calls in flight, and valid Responses to them.
FailureInbound ==
    {RequestMsg(id, m, "P1") :
        id \in {IntId(7), OtherId}, m \in Methods \cup {UnknownMethod, "nonstr"}}
    \cup {NotificationMsg(m, p) : m \in Methods, p \in {"P1", "nonmap"}}
    \cup {Msg("1.0", IntId(7), "absent", "absent", "absent", NoError), NotADict}
    \cup {ResponseMsg(IntId(n), r, NoError) : n \in 1..MaxCalls, r \in {"absent", "nonmap", "R1"}}

NextFailures ==
    \/ Start
    \/ \E m \in Methods : RegisterRequestHandler(m, "h1")
    \/ \E m \in Methods : RegisterNotificationHandler(m, "h1")
    \/ \E c \in Calls : SendRequest(c, ArgsOf(c))
    \/ \E c \in Calls : Resume(c)
    \/ \E t \in Tasks, raw \in FailureInbound : Receive(t, raw)
    \/ \E t \in Tasks : HandlerReturn(t, "R1")
    \/ \E t \in Tasks, e \in HandlerErrors : HandlerRaise(t, e)

SpecFailures == Init /\ [][NextFailures]_vars

\* The life of a transport: user code connects it, sends on it, files
\* requests on it and disconnects it, in any order and with every outcome of
\* the I/O, and a Protocol Handler is started on it.
InitLifecycle ==
    /\ HandlerInit
    /\ \E kind \in TransportKinds : TransportInit(kind, << >>)
    /\ IdleCalls

NextLifecycle ==
    \/ \E ok \in BOOLEAN : ConnectAttempt(ok)
    \/ \E o \in SendOutcomes : SendAttempt(o)
    \/ \E ok \in BOOLEAN : Disconnect(ok)
    \/ TransportSendRequest
    \/ \E id \in 1..MaxCalls : TransportTimeout(id)
    \/ Start
    \/ LoopBegins

SpecLifecycle == InitLifecycle /\ [][NextLifecycle]_vars

\* Answering Requests: the peer sends Requests of every shape, with and
\* without a handler registered, the handlers return and raise, sends fail,
\* and the handler is stopped and started meanwhile.
NextAnswers ==
    \/ Start
    \/ StopBegin
    \/ StopFinish
    \/ \E t \in Tasks : TaskCancelled(t)
    \/ \E m \in Methods : RegisterRequestHandler(m, "h1")
    \/ \E t \in Tasks, raw \in InboundRequests : Receive(t, raw)
    \/ \E t \in Tasks, r \in HandlerResults : HandlerReturn(t, r)
    \/ \E t \in Tasks, e \in HandlerErrors : HandlerRaise(t, e)

SpecAnswers == Init /\ [][NextAnswers]_vars

\* Protocol versions: the peer sends Requests, Responses and Notifications
\* without a version, with version "1.0" and with version "2.0", their ids
\* those of the handler's own Pending Requests and their methods registered.
VersionInbound ==
    {Msg(v, id, m, "absent", r, e) :
        v \in {"absent", "1.0", "2.0"},
        id \in {IntId(1), StrId("1"), AbsentId},
        m \in {"absent"} \cup Methods,
        r \in {"absent", "R1"},
        e \in {NoError, PeerError}}

NextVersion ==
    \/ Start
    \/ \E m \in Methods : RegisterRequestHandler(m, "h1")
    \/ \E m \in Methods : RegisterNotificationHandler(m, "h1")
    \/ \E c \in Calls : SendRequest(c, ArgsOf(c))
    \/ \E c \in Calls : Resume(c)
    \/ \E t \in Tasks, raw \in VersionInbound : Receive(t, raw)
    \/ \E t \in Tasks : HandlerReturn(t, "R1")

SpecVersion == Init /\ [][NextVersion]_vars

\* The peer of a WebSocketTransport closes the connection, normally or
\* abnormally, while requests sent through the transport before the close
\* wait for their responses.
InitClose ==
    /\ HandlerInit
    /\ \E kinds \in Wires : TransportInit("websocket", InboundFrames(kinds))
    /\ IdleCalls

NextClose ==
    \/ Connect
    \/ Start
    \/ LoopBegins
    \/ ~channel.eof /\ TransportSendRequest
    \/ \E id \in 1..MaxCalls : TransportTimeout(id)
    \/ Arrive
    \/ \E abnormal \in BOOLEAN : EndOfInput(abnormal)
    \/ \E r \in Readers : Read(r)

SpecClose == InitClose /\ [][NextClose]_vars

\* The outbound interface: user code calls send_request, send_notification
\* and send_response while the handler is started and stopped.
NextOutbound ==
    \/ Start
    \/ StopBegin
    \/ StopFinish
    \/ \E t \in Tasks : TaskCancelled(t)
    \/ \E t \in Tasks : ReceiveEnd(t)
    \/ \E c \in Calls : SendRequest(c, ArgsOf(c))
    \/ \E c \in Calls : Timeout(c)
    \/ \E c \in Calls : Resume(c)
    \/ \E m \in OutboundMethods, p \in OutboundParams : SendNotification(m, p)
    \/ \E id \in OutboundIds, r \in OutboundResults, e \in OutboundErrors :
            SendResponse(id, r, e)

SpecOutbound == Init /\ [][NextOutbound]_vars

\* ------------------------------------------------------------------ tools
\* what steps of a Tool or of the ToolRegistry leave alone
handlerSide ==
    <<running, sequence_number, pending_requests, message_task, handlerVars,
      task, call, stopper>>
wireVars ==
    <<transport, channel, readers, delivered, dropped, codec, connector,
      sender, closer, polling>>

\* the names of two tool classes, and a name no class has
ToolNames == {"notion_database", "notion_page"}
UnknownTool == "nope"

\* ToolError and its subclasses ToolTimeout and ToolValidationError
ToolErrors == {"ToolError", "ToolTimeout", "ToolValidationError"}

\* NotionDatabaseTool.input_schema, abridged to a required string and an
\* optional integer: the JSON schema type each property declares.
SchemaRequired == {"action"}
SchemaProperties == {<<"action", "string">>, <<"page_size", "integer">>}

\* The arguments of a call: whether they are a dict at all, and the Python
\* type of the value of each field.
Args(fields) == [dict |-> TRUE, fields |-> fields]
NotADictArgs == [dict |-> FALSE, fields |-> {}]
\* the arguments user code passes, by name
ArgumentsOf(a) ==
    CASE a = "valid" -> Args({<<"action", "str">>})
      [] a = "empty" -> Args({})
      [] a = "action:int" -> Args({<<"action", "int">>})
      [] a = "page_size:bool" ->
             Args({<<"action", "str">>, <<"page_size", "bool">>})
      [] a = "page_size:str" ->
             Args({<<"action", "str">>, <<"page_size", "str">>})
      [] a = "other:int" -> Args({<<"action", "str">>, <<"other", "int">>})
      [] OTHER -> NotADictArgs
CallArguments ==
    {"valid", "empty", "action:int", "page_size:bool", "page_size:str",
     "other:int", "None"}

\* Tool._check_type: isinstance(value, type_mapping[expected_type]); bool is
\* a subclass of int, and a type the mapping lacks is not checked.
CheckType(value, expected_type) ==
    CASE expected_type = "string" -> value = "str"
      [] expected_type = "integer" -> value \in {"int", "bool"}
      [] expected_type = "number" -> value \in {"int", "bool", "float"}
      [] expected_type = "boolean" -> value = "bool"
      [] expected_type = "array" -> value = "list"
      [] expected_type = "object" -> value = "dict"
      [] expected_type = "null" -> value = "NoneType"
      [] OTHER -> TRUE

\* a required field is not among the arguments
MissingRequired(arguments) ==
    \E f \in SchemaRequired : \A a \in arguments.fields : a[1] # f
\* a field the schema declares holds a value of another type
WrongType(arguments) ==
    \E a \in arguments.fields, p \in SchemaProperties :
        a[1] = p[1] /\ ~CheckType(a[2], p[2])

\* ValidationError.from_exception_data("ValidationError", [{"type": t, ...}]):
\* pydantic builds the error for the type "missing"; "type_error" is no
\* error type it knows and "value_error" needs a context the call lacks, so
\* for these the constructor itself raises.
FromExceptionData(t) == IF t = "missing" THEN "ValidationError" ELSE "raises"

\* mutant: only the required fields are checked
ValidateInput_RequiredOnly(arguments) ==
    LET first == IF ~arguments.dict THEN "TypeError"
                 ELSE IF MissingRequired(arguments)
                      THEN FromExceptionData("missing")
                 ELSE "none" IN
    IF first \in {"none", "ValidationError"} THEN first
    ELSE IF FromExceptionData("value_error") = "ValidationError"
         THEN "ValidationError" ELSE "ValueError"

\* Tool._validate_input: the exception it raises, "none" when it returns.
\* 171-176 check the required fields (`in` on arguments that are no dict
\* raises TypeError), 179-190 the types; 192-198 re-raise a
\* ValidationError and replace anything else by a "value_error" one.
ValidateInput(arguments) ==
    LET first == IF ~arguments.dict THEN "TypeError"
                 ELSE IF MissingRequired(arguments)
                      THEN FromExceptionData("missing")
                 ELSE IF WrongType(arguments)
                      THEN FromExceptionData("type_error")
                 ELSE "none" IN
    IF first \in {"none", "ValidationError"} THEN first
    ELSE IF FromExceptionData("value_error") = "ValidationError"
         THEN "ValidationError" ELSE "ValueError"

\* what execute does: returns, or raises one of these
ExecuteOutcomes ==
    {"ok", "Exception", "ToolError", "TimeoutError", "ValidationError"}

\* what a call on the instance i leaves: the instance and how the call went
Left(t, i, op, impl, executed, outcome) ==
    [t |-> t, did |-> Did(i, op, impl, executed, outcome)]

\* Tool.initialize on the instance t, whose _initialize_impl returns (ok)
\* or raises.
InitializeOf(i, t, ok) ==
    IF t.initialized
    THEN Left(t, i, "initialize", FALSE, FALSE, "returned")
    ELSE IF ok
    THEN Left([t EXCEPT !.initialized = TRUE],
              i, "initialize", TRUE, FALSE, "returned")
    ELSE Left(t, i, "initialize", TRUE, FALSE, "ToolError")

\* Tool.cleanup on the instance t, whose _cleanup_impl returns (ok) or
\* raises: line 96 is skipped when it raises, and 98-99 log the exception.
CleanupOf(i, t, ok) ==
    IF ~t.initialized
    THEN Left(t, i, "cleanup", FALSE, FALSE, "returned")
    ELSE IF ok
    THEN Left([t EXCEPT !.initialized = FALSE],
              i, "cleanup", TRUE, FALSE, "returned")
    ELSE Left(t, i, "cleanup", TRUE, FALSE, "returned")

\* Tool.call 142-158: the exception the call raises for what the try block
\* raised
CallRaises(e) ==
    CASE e = "TimeoutError" -> "ToolTimeout"
      [] e = "ValidationError" -> "ToolValidationError"
      [] e \in ToolErrors -> e
      [] OTHER -> "ToolError"

\* Tool.call on the instance t with these arguments, when _initialize_impl
\* would return (init_ok) or raise and execute would do ex.
CallOf(i, t, arguments, init_ok, ex) ==
    LET a == IF t.initialized THEN t ELSE InitializeOf(i, t, init_ok).t
        ran == ~t.initialized
        v == ValidateInput(ArgumentsOf(arguments))
        left == IF ~a.initialized
                THEN Left(a, i, "call", ran, FALSE, "ToolError")
                ELSE IF v # "none"
                THEN Left(a, i, "call", ran, FALSE, CallRaises(v))
                ELSE IF ex = "ok"
                THEN Left(a, i, "call", ran, TRUE, "returned")
                ELSE Left(a, i, "call", ran, TRUE, CallRaises(ex)) IN
    [left EXCEPT !.did.input =
        [arguments |-> arguments, was |-> t.initialized,
         init_ok |-> init_ok, ex |-> ex]]

Made(i) == tool[i].st = "made"
\* the instances the registry holds
Held == {registry.tools[k].inst : k \in DOMAIN registry.tools}

ToolStep == UNCHANGED <<handlerSide, wireVars, server>> /\ NoSend

\* ToolRegistry.register_tool_class
RegisterToolClass(name) ==
    /\ registry' = [registry EXCEPT
                        !.classes = @ \cup {name},
                        !.last = Did(0, "register_tool_class", FALSE, FALSE,
                                     "returned")]
    /\ UNCHANGED tool
    /\ ToolStep

\* _tools[name] = inst: a name that has an entry keeps its place
PutTool(tools, name, inst) ==
    IF \E k \in DOMAIN tools : tools[k].name = name
    THEN [k \in DOMAIN tools |->
             IF tools[k].name = name THEN [name |-> name, inst |-> inst]
             ELSE tools[k]]
    ELSE Append(tools, [name |-> name, inst |-> inst])

\* ToolRegistry.create_tool: ValueError for a name without class, otherwise
\* a new instance that takes the place of the one the name had.
CreateTool(name) ==
    IF name \notin registry.classes
    THEN /\ registry' = [registry EXCEPT
                             !.last = Did(0, "create_tool", FALSE, FALSE,
                                          "ValueError")]
         /\ UNCHANGED tool
         /\ ToolStep
    ELSE \E i \in Instances :
            /\ tool[i].st = "unborn"
            /\ \A j \in Instances : j < i => Made(j)
            /\ tool' = [tool EXCEPT ![i] = [NewTool EXCEPT !.st = "made",
                                                           !.name = name]]
            /\ registry' = [registry EXCEPT
                                !.tools = PutTool(@, name, i),
                                !.last = Did(i, "create_tool", FALSE, FALSE,
                                             "returned")]
            /\ ToolStep

\* Tool.initialize, called by user code
ToolInitialize(i, ok) ==
    /\ Made(i)
    /\ tool' = [tool EXCEPT ![i] = InitializeOf(i, tool[i], ok).t]
    /\ registry' = [registry EXCEPT !.last = InitializeOf(i, tool[i], ok).did]
    /\ ToolStep

\* Tool.cleanup, called by user code
ToolCleanup(i, ok) ==
    /\ Made(i)
    /\ tool' = [tool EXCEPT ![i] = CleanupOf(i, tool[i], ok).t]
    /\ registry' = [registry EXCEPT !.last = CleanupOf(i, tool[i], ok).did]
    /\ ToolStep

\* Tool.call, called by user code
ToolCall(i, arguments, init_ok, ex) ==
    /\ Made(i)
    /\ tool' = [tool EXCEPT ![i] = CallOf(i, tool[i], arguments, init_ok, ex).t]
    /\ registry' = [registry EXCEPT
                        !.last = CallOf(i, tool[i], arguments, init_ok, ex).did]
    /\ ToolStep

\* the place in _tools of the first tool whose initialize() raises, 0 if
\* there is none
FirstFailure(oks) ==
    LET bad == {k \in DOMAIN registry.tools :
                   /\ ~tool[registry.tools[k].inst].initialized
                   /\ ~oks[registry.tools[k].inst]} IN
    IF bad = {} THEN 0 ELSE CHOOSE k \in bad : \A j \in bad : k <= j

\* ToolRegistry.initialize_all: the tools are initialized in the order of
\* _tools, up to the first whose initialize() raises.
InitializeAll(oks) ==
    LET ff == FirstFailure(oks)
        reached == {registry.tools[k].inst :
                       k \in {j \in DOMAIN registry.tools : ff = 0 \/ j <= ff}} IN
    /\ tool' = [i \in Instances |->
                   IF i \in reached THEN InitializeOf(i, tool[i], oks[i]).t
                   ELSE tool[i]]
    /\ registry' = [registry EXCEPT
                        !.last = Did(0, "initialize_all", FALSE, FALSE,
                                     IF ff = 0 THEN "returned" ELSE "ToolError")]
    /\ ToolStep

\* ToolRegistry.cleanup_all: cleanup() of every tool in _tools, gathered,
\* then _tools.clear().
CleanupAllOf(oks) ==
    [i \in Instances |-> IF i \in Held THEN CleanupOf(i, tool[i], oks[i]).t
                         ELSE tool[i]]
CleanupAll(oks) ==
    /\ tool' = CleanupAllOf(oks)
    /\ registry' = [registry EXCEPT
                        !.tools = << >>,
                        !.last = Did(0, "cleanup_all", FALSE, FALSE, "returned")]
    /\ ToolStep

ImplOutcomes == [Instances -> BOOLEAN]

\* The tool lifecycle: user code registers classes, creates tools, and
\* initializes and cleans them up, one by one and through the registry.
NextTools ==
    \/ \E n \in ToolNames : RegisterToolClass(n)
    \/ \E n \in ToolNames \cup {UnknownTool} : CreateTool(n)
    \/ \E i \in Instances, ok \in BOOLEAN : ToolInitialize(i, ok)
    \/ \E i \in Instances, ok \in BOOLEAN : ToolCleanup(i, ok)
    \/ \E oks \in ImplOutcomes : InitializeAll(oks)
    \/ \E oks \in ImplOutcomes : CleanupAll(oks)

SpecTools == Init /\ [][NextTools]_vars

\* Tool calls: user code creates tools of one class and calls them with
\* arguments of every shape, initialized or not, cleaning up in between.
NextCalls ==
    \/ RegisterToolClass("notion_database")
    \/ CreateTool("notion_database")
    \/ \E i \in Instances, ok \in BOOLEAN : ToolInitialize(i, ok)
    \/ \E i \in Instances, ok \in BOOLEAN : ToolCleanup(i, ok)
    \/ \E i \in Instances, a \in CallArguments, ok \in BOOLEAN,
          ex \in ExecuteOutcomes : ToolCall(i, a, ok, ex)

SpecCalls == Init /\ [][NextCalls]_vars

\* ------------------------------------------------------------ the server
\* MCPServer._setup_handlers: the handlers the server registers with its
\* ProtocolHandler when it is constructed.
ServerHandlers ==
    [m \in {"initialize", "shutdown", "tools/list", "tools/call"} |->
        CASE m = "initialize" -> "_handle_initialize"
          [] m = "shutdown" -> "_handle_shutdown"
          [] m = "tools/list" -> "_handle_tools_list"
          [] OTHER -> "_handle_tools_call"]
ServerNotificationHandlers ==
    [m \in {"initialized", "logging/setLevel"} |->
        IF m = "initialized" THEN "_handle_initialized"
        ELSE "_handle_set_log_level"]

\* MCPServer.__init__ on a transport that is not connected
InitServer ==
    /\ running = FALSE
    /\ sequence_number = 0
    /\ pending_requests = EmptyTable
    /\ message_task = NoTask
    /\ request_handlers = ServerHandlers
    /\ notification_handlers = ServerNotificationHandlers
    /\ task = [t \in Tasks |-> IdleTask]
    /\ call = [c \in Calls |-> IdleCall]
    /\ stopper = [pc |-> "idle", task |-> NoTask]
    /\ sent = << >>
    /\ send_failed = FALSE
    /\ send_calls = 0
    /\ raised = NoExc
    /\ TransportInit("none", << >>)
    /\ IdleCalls

\* The params of the Requests a client sends, by the keys they hold:
\* "init_by_alias" holds protocol_version, capabilities and client_info,
\* "init_by_name" holds protocolVersion, capabilities and clientInfo, "call"
\* holds the name of a tool and arguments for it.
ParamsKeys(params) ==
    CASE params = "init_by_alias" ->
             {"protocol_version", "capabilities", "client_info"}
      [] params = "init_by_name" ->
             {"protocolVersion", "capabilities", "clientInfo"}
      [] params = "call" -> {"name", "arguments"}
      [] OTHER -> {}
ServerParams == {"absent", "init_by_alias", "init_by_name", "call"}
ServerRequests ==
    {Msg("2.0", IntId(7), m, p, "absent", NoError) :
        m \in DOMAIN ServerHandlers, p \in ServerParams}

\* messages.py InitializeParams: the keys model_validate requires (a field
\* with an alias is populated by its alias only) and the attributes the
\* validated object has (the field names).
InitializeParamsKeys == {"protocol_version", "capabilities", "client_info"}
InitializeParamsAttrs == {"protocolVersion", "capabilities", "clientInfo"}
\* the attributes _handle_initialize reads from it (server.py 221-222)
InitializeReads == {"protocol_version", "client_info"}
ToolCallParamsKeys == {"name"}

\* _handle_initialize 215-241: how it leaves.  model_validate raises
\* ValidationError for params that lack a required key; reading an
\* attribute the object does not have raises AttributeError, before line
\* 226 marks the server initialized.
InitializeOutcome(params) ==
    IF ~(InitializeParamsKeys \subseteq ParamsKeys(params))
    THEN "ValidationError"
    ELSE IF ~(InitializeReads \subseteq InitializeParamsAttrs)
    THEN "AttributeError"
    ELSE "ok"

\* a step of the server that calls no tool
NoToolStep == UNCHANGED <<registry, tool>>
\* what steps of the server's request handlers leave alone
ServedStep ==
    UNCHANGED <<running, sequence_number, pending_requests, message_task,
                handlerVars, call, stopper, wireVars>>

\* the consumption task t is awaiting the server's handler h
Awaits(t, h) ==
    /\ task[t].st = "handler"
    /\ ~task[t].cancel
    /\ task[t].handler = h

\* the handler awaited by t raises an exception with this text: what
\* _handle_request 219-229 does next
Raises(t, text) ==
    /\ task' = [task EXCEPT ![t] = BackToRecv]
    /\ Transmit(HandlerErrorChain(task[t].msg, text))
\* the handler awaited by t returns result: _handle_request 217
Returns(t, result) ==
    /\ task' = [task EXCEPT ![t] = BackToRecv]
    /\ Transmit(HandlerResultChain(task[t].msg, result))

\* MCPServer._handle_initialize, with `request.params or {}`
HandleInitialize(t) ==
    /\ Awaits(t, "_handle_initialize")
    /\ IF InitializeOutcome(task[t].msg.params) = "ok"
       THEN /\ server' = [server EXCEPT !.initialized = TRUE]
            /\ Returns(t, "R1")
       ELSE /\ UNCHANGED server
            /\ Raises(t, InitializeOutcome(task[t].msg.params))
    /\ NoToolStep
    /\ ServedStep

\* MCPServer._handle_tools_list
HandleToolsList(t) ==
    /\ Awaits(t, "_handle_tools_list")
    /\ IF ~server.initialized
       THEN Raises(t, "Server not initialized")
       ELSE Returns(t, "R1")
    /\ UNCHANGED server
    /\ NoToolStep
    /\ ServedStep

\* MCPServer._handle_tools_call for a tool whose _initialize_impl returns
\* (init_ok) or raises and whose execute does ex.  291-292 refuse when the
\* server is not initialized; 295 validates the params; 306-311 fetch the
\* tool or create and initialize it; 317-320 call it; a ToolError of the
\* call is returned as an error result (333-350), anything raised before
\* is re-raised (352-355).
HandleToolsCall(t, init_ok, ex) ==
    /\ Awaits(t, "_handle_tools_call")
    /\ UNCHANGED server
    /\ ServedStep
    /\ IF ~server.initialized
       THEN Raises(t, "Server not initialized") /\ NoToolStep
       ELSE IF ~(ToolCallParamsKeys \subseteq ParamsKeys(task[t].msg.params))
       THEN Raises(t, "ValidationError") /\ NoToolStep
       ELSE IF \E k \in DOMAIN registry.tools :
                   registry.tools[k].name = "notion_database"
       THEN LET i == (CHOOSE k \in DOMAIN registry.tools :
                         registry.tools[k].name = "notion_database")
                r == CallOf(registry.tools[i].inst,
                            tool[registry.tools[i].inst], "valid", init_ok, ex) IN
            /\ tool' = [tool EXCEPT ![registry.tools[i].inst] = r.t]
            /\ registry' = [registry EXCEPT !.last = r.did]
            /\ Returns(t, "R1")
       ELSE IF "notion_database" \notin registry.classes
       THEN Raises(t, "Unknown tool: notion_database") /\ NoToolStep
       ELSE \E i \in Instances :
               /\ tool[i].st = "unborn"
               /\ \A j \in Instances : j < i => Made(j)
               /\ LET made == [NewTool EXCEPT !.st = "made",
                                              !.name = "notion_database"]
                      first == InitializeOf(i, made, init_ok)
                      r == CallOf(i, first.t, "valid", init_ok, ex) IN
                  IF ~first.t.initialized
                  THEN /\ tool' = [tool EXCEPT ![i] = first.t]
                       /\ registry' = [registry EXCEPT
                              !.tools = PutTool(@, "notion_database", i),
                              !.last = first.did]
                       /\ Raises(t, "Failed to initialize notion_database")
                  ELSE /\ tool' = [tool EXCEPT ![i] = r.t]
                       /\ registry' = [registry EXCEPT
                              !.tools = PutTool(@, "notion_database", i),
                              !.last = r.did]
                       /\ Returns(t, "R1")

\* MCPServer._handle_shutdown: the delayed shutdown is scheduled and the
\* handler returns {}; _handle_request 217 enters send_response, which
\* awaits transport.send_message.
HandleShutdown(t) ==
    /\ Awaits(t, "_handle_shutdown")
    /\ task' = [task EXCEPT ![t].handler = "send_response"]
    /\ server' = [server EXCEPT !.shutdown = "sleeping"]
    /\ NoToolStep
    /\ ServedStep
    /\ NoSend

\* transport.send_message, awaited for the Response to `shutdown`, accepts
\* the Response or raises.
ShutdownResponse(t) ==
    /\ Awaits(t, "send_response")
    /\ Returns(t, "{}")
    /\ UNCHANGED server
    /\ NoToolStep
    /\ ServedStep

\* MCPServer.start up to `await self._initialize_tools()`: transport.connect
\* returns (ok) or raises, then ProtocolHandler.start.  When connect raises,
\* 108-111 call stop(), which returns at once as _running is False, and
\* re-raise.
ServerStartBegin(ok) ==
    /\ server.starter = "idle"
    /\ IF server.running
       THEN /\ UNCHANGED <<server, transport, running, task, message_task>>
       ELSE IF ~ok
       THEN /\ server' = [server EXCEPT !.failed = TRUE]
            /\ UNCHANGED <<transport, running, task, message_task>>
       ELSE /\ server' = [server EXCEPT !.starter = "tools", !.failed = FALSE]
            /\ transport' = [transport EXCEPT !.connected = TRUE]
            /\ IF running
               THEN UNCHANGED <<running, task, message_task>>
               ELSE /\ \E t \in Tasks :
                         /\ task[t].st = "unborn"
                         /\ \A u \in Tasks : u < t => task[u].st # "unborn"
                         /\ task' = [task EXCEPT ![t].st = "recv"]
                         /\ message_task' = t
                    /\ running' = TRUE
    /\ UNCHANGED <<sequence_number, pending_requests, handlerVars, call,
                   stopper, channel, readers, delivered, dropped, codec,
                   connector, sender, closer, polling, registry, tool>>
    /\ NoSend

\* The rest of MCPServer.start: _initialize_tools registers the tool
\* classes (no tool is configured) and _running is set, or it raises (the
\* import of the tool modules fails) and 108-111 call stop(), which
\* returns at once as _running is still False, and re-raise.
ServerStartTools(ok) ==
    /\ server.starter = "tools"
    /\ IF ok
       THEN /\ registry' = [registry EXCEPT !.classes = ToolNames]
            /\ server' = [server EXCEPT !.starter = "idle", !.running = TRUE]
       ELSE /\ UNCHANGED registry
            /\ server' = [server EXCEPT !.starter = "idle", !.failed = TRUE]
    /\ UNCHANGED <<handlerSide, wireVars, tool>>
    /\ NoSend

\* MCPServer.stop up to its first suspension that outlasts a step: nothing
\* when the server is not running; otherwise _running is cleared, the tools
\* are cleaned up, ProtocolHandler.stop cancels the consumption task and
\* awaits it, or, when there is none to await, returns, and the transport
\* is disconnected.  sd is what becomes of the delayed-shutdown task.
StopBody(oks, sd) ==
    /\ server.stopper = "idle"
    /\ stopper.pc = "idle"
    /\ IF ~server.running
       THEN /\ server' = [server EXCEPT !.shutdown = sd]
            /\ UNCHANGED <<running, task, stopper, call, pending_requests,
                           transport, registry, tool>>
       ELSE /\ tool' = CleanupAllOf(oks)
            /\ registry' = [registry EXCEPT !.tools = << >>]
            /\ IF running /\ message_task # NoTask /\ ~TaskDone(message_task)
               THEN /\ running' = FALSE
                    /\ task' = [task EXCEPT ![message_task].cancel = TRUE]
                    /\ stopper' = [pc |-> "awaiting", task |-> message_task]
                    /\ server' = [server EXCEPT !.running = FALSE,
                                                !.shutdown = sd,
                                                !.stopper = "handler"]
                    /\ UNCHANGED <<call, pending_requests, transport>>
               ELSE /\ running' = FALSE
                    /\ IF running THEN CancelPending
                       ELSE UNCHANGED <<call, pending_requests>>
                    /\ transport' = [transport EXCEPT !.connected = FALSE]
                    /\ server' = [server EXCEPT !.running = FALSE,
                                                !.shutdown = sd]
                    /\ UNCHANGED <<task, stopper>>
    /\ UNCHANGED <<sequence_number, message_task, handlerVars, channel,
                   readers, delivered, dropped, codec, connector, sender,
                   closer, polling>>
    /\ NoSend

\* MCPServer.stop, called by user code
ServerStop(oks) ==
    /\ server.stopper = "idle"
    /\ StopBody(oks, server.shutdown)

\* MCPServer._delayed_shutdown: the sleep of 0.1 s is over and stop() runs
DelayedShutdown(oks) ==
    /\ server.shutdown = "sleeping"
    /\ StopBody(oks, "none")

\* MCPServer.stop 128-130 once ProtocolHandler.stop has returned:
\* transport.disconnect
ServerStopFinish ==
    /\ server.stopper = "handler"
    /\ stopper.pc = "idle"
    /\ server' = [server EXCEPT !.stopper = "idle"]
    /\ transport' = [transport EXCEPT !.connected = FALSE]
    /\ UNCHANGED <<handlerSide, channel, readers, delivered, dropped, codec,
                   connector, sender, closer, polling, registry, tool>>
    /\ NoSend

\* The server: user code starts and stops it while a client sends the
\* Requests the server has handlers for.
NextServer ==
    \/ \E ok \in BOOLEAN : ServerStartBegin(ok)
    \/ \E ok \in BOOLEAN : ServerStartTools(ok)
    \/ \E oks \in ImplOutcomes : ServerStop(oks)
    \/ ServerStopFinish
    \/ StopFinish
    \/ \E t \in Tasks : TaskCancelled(t)
    \/ \E t \in Tasks, raw \in ServerRequests : Receive(t, raw)
    \/ \E t \in Tasks : HandleInitialize(t)
    \/ \E t \in Tasks : HandleToolsList(t)
    \/ \E t \in Tasks, ok \in BOOLEAN, ex \in ExecuteOutcomes :
            HandleToolsCall(t, ok, ex)
    \/ \E t \in Tasks : HandleShutdown(t)
    \/ \E t \in Tasks : ShutdownResponse(t)
    \/ \E oks \in ImplOutcomes : DelayedShutdown(oks)

SpecServer == InitServer /\ [][NextServer]_vars

\* ----------------------------------------------------------------- claims
\* The Pending Request of call c is unresolved and c is suspended on it.
Outstanding(c) == call[c].pc = "waiting" /\ call[c].future.st = "pending"

\* The Responses the peer may send with the id n, as an integer or as the
\* string of its decimal digits, and those of them that carry a result under
\* the integer id.
ResponsesFor(n) ==
    {raw \in InboundResponses : raw.id \in {IntId(n), StrId(IntToStr(n))}}
ResultsFor(n) == {ResultResponse(IntId(n), r) : r \in {"R1", "{}"}}

\* C1: a Response carrying `result` and the id of a send_request call that
\* is suspended on its still unresolved Pending Request completes that
\* Pending Request with exactly that result; the call, once resumed, returns
\* exactly that result; and a call that has returned has no entry under its
\* id in the correlation table.
C1_ResultReturned ==
    /\ [][\A c \in Calls :
            Outstanding(c) =>
            \A raw \in ResultsFor(call[c].id), t \in Tasks :
            Receive(t, raw)
            => call'[c].future = [st |-> "result", val |-> raw.result,
                                  exc |-> NoExc]]_vars
    /\ [][\A c \in Calls :
            (call[c].future.st = "result" /\ call'[c] # call[c])
            => /\ call'[c].pc = "returned"
               /\ call'[c].result = call[c].future.val
               /\ call'[c].future = call[c].future]_vars
    /\ [](\A c \in Calls :
            call[c].pc = "returned"
            => IntToStr(call[c].id) \notin DOMAIN pending_requests)

C1_Witness ==
    \E c \in Calls :
        /\ call[c].pc = "returned"
        /\ call[c].result = "R1"
        /\ call[c].future.val = "R1"

\* C2: while two send_request calls are outstanding at once, a Response
\* carrying the id of one of them completes that one's Pending Request with
\* its result and leaves the other call and its Pending Request untouched,
\* whichever of the two Responses arrives first; each call then returns what
\* its own Pending Request was completed with.
C2_OwnResult ==
    /\ [][\A c \in Calls, d \in Calls :
            (c # d /\ Outstanding(c) /\ Outstanding(d)) =>
            \A raw \in ResultsFor(call[c].id), t \in Tasks :
            Receive(t, raw)
            => /\ call'[c].future.st = "result"
               /\ call'[c].future.val = raw.result
               /\ call'[d] = call[d]
               /\ DOMAIN pending_requests' = DOMAIN pending_requests]_vars
    /\ [](\A c \in Calls :
            call[c].pc = "returned"
            => call[c].future.st = "result" /\ call[c].result = call[c].future.val)

\* the later call has its result while the earlier one is still outstanding:
\* the two Responses arrive in reverse order
C2_Witness ==
    /\ \E c \in Calls, d \in Calls :
        /\ c < d
        /\ Outstanding(c)
        /\ call[d].pc = "returned"
        /\ call[d].result = "R1"
    /\ \E t \in Tasks : ENABLED Receive(t, ResultResponse(IntId(1), "{}"))

\* C3: when the timeout of a waiting send_request call elapses with its
\* Pending Request unresolved, the only way the call goes on is to raise the
\* timeout error naming its method and its timeout and to leave the table
\* without its id; this needs no stop() (the handler's Running state is not
\* changed by it); a call that has timed out has no entry in the table; and a
\* Response for that id processed after the timeout changes no call and no
\* table entry and transmits nothing.
C3_TimeoutRaised ==
    /\ [][\A c \in Calls :
            (call[c].future.st = "cancelled" /\ call'[c] # call[c])
            => /\ call[c].pc = "waiting"
               /\ call'[c].pc = "raised"
               /\ call'[c].exc.kind = "timeout"
               /\ call'[c].exc.method = ArgsOf(c).method
               /\ call'[c].exc.timeout = ArgsOf(c).timeout
               /\ IntToStr(call[c].id) \notin DOMAIN pending_requests'
               /\ running' = running]_vars
    /\ [](\A c \in Calls :
            call[c].future.st = "cancelled" /\ call[c].pc = "waiting"
            => ENABLED Resume(c))
    /\ [](\A c \in Calls :
            call[c].exc.kind = "timeout"
            => IntToStr(call[c].id) \notin DOMAIN pending_requests)
    /\ [][\A c \in Calls :
            call[c].future.st = "cancelled" =>
            \A raw \in ResponsesFor(call[c].id), t \in Tasks :
            Receive(t, raw)
            => /\ call' = call
               /\ pending_requests' = pending_requests
               /\ sent' = << >>]_vars

\* a call has timed out on a handler that is still Running and still
\* consuming, and a Response for its id can still arrive
C3_Witness ==
    \E c \in Calls, t \in Tasks :
        /\ call[c].pc = "raised"
        /\ call[c].exc = TimeoutError("slow", 5)
        /\ running
        /\ ENABLED Receive(t, ResultResponse(IntId(call[c].id), "R1"))

\* stop() returns in this step: its last statement is executed either by
\* StopFinish (after the await) or by StopBegin itself (nothing to await).
StopReturns ==
    \/ StopFinish
    \/ StopBegin /\ running /\ stopper'.pc = "idle"

\* C4: when stop() is called on a Running handler, every send_request call
\* suspended on an unresolved Pending Request when stop() fails the pending
\* ones gets the "handler stopped" error, no call is left suspended on an
\* unresolved Pending Request, and once stop() has returned the handler is
\* Stopped, its consumption task is finished and the correlation table is
\* empty.
C4_StopLeavesStopped ==
    [][StopReturns
        => /\ \A c \in Calls :
                Outstanding(c) => call'[c].future = SetException(StoppedError)
           /\ \A c \in Calls : ~Outstanding(c)'
           /\ ~running'
           /\ message_task' # NoTask => task'[message_task'].st = "done"
           /\ pending_requests' = EmptyTable]_vars

\* C5: an inbound object whose jsonrpc field is absent or is not "2.0" and
\* whose id is a valid id is answered, when the transport accepts the reply,
\* with exactly one error Response that echoes the id and has the code
\* INVALID_REQUEST; when the id is absent or null nothing is transmitted.
C5_BadVersionInvalidRequest ==
    [][\A t \in Tasks, raw \in Malformed :
            (Receive(t, raw) /\ raw.dict /\ raw.jsonrpc # "2.0")
            => /\ (ValidId(raw.id) /\ ~send_failed')
                    => /\ Len(sent') = 1
                       /\ sent'[1].id = raw.id
                       /\ sent'[1].error.code = INVALID_REQUEST
               /\ RawGetId(raw) = NullId => sent' = << >>]_vars

\* C6: an inbound well-formed Request whose method has no registered request
\* handler when it is dispatched invokes no handler, and every Response
\* transmitted for it carries its id and the code METHOD_NOT_FOUND.
C6_MethodNotFound ==
    [][\A t \in Tasks, raw \in InboundRequests :
            (/\ Receive(t, raw)
             /\ ValidRequest(raw)
             /\ ~Has(request_handlers, raw.method))
            => /\ task'[t].st = "recv"
               /\ \A i \in 1..Len(sent') :
                    /\ sent'[i].id = raw.id
                    /\ sent'[i].error.code = METHOD_NOT_FOUND]_vars

\* the inbound objects with a method and no id, of any protocol version
NotificationShaped ==
    {raw \in Inbound : raw.dict /\ raw.id = AbsentId /\ HasKey(raw.method)}

\* C7: processing an inbound Notification (an object with a method and no
\* id) transmits nothing and attempts no transmission: when it is received,
\* whether a handler is registered for it or not and whether it passes shape
\* validation or not, and when its handler returns or raises.
C7_NotificationNeverAnswered ==
    /\ [][\A t \in Tasks, raw \in NotificationShaped :
            Receive(t, raw) => sent' = << >> /\ ~send_failed']_vars
    /\ [][\A t \in Tasks :
            (task[t].kind = "notification" /\ task'[t] # task[t])
            => sent' = << >> /\ ~send_failed']_vars
    /\ [](\A t \in Tasks :
            task[t].kind = "notification"
            => task[t].msg.id = AbsentId /\ HasKey(task[t].msg.method))

\* the handler of a Notification is running and may return or raise, and a
\* Notification of another protocol version can arrive as well
C7_Witness ==
    \E t \in Tasks, u \in Tasks :
        /\ task[t].st = "handler"
        /\ task[t].kind = "notification"
        /\ ENABLED HandlerRaise(t, [text |-> "boom", code |-> 0])
        /\ ENABLED HandlerReturn(t, "R1")
        /\ task[u].st = "done"

WellFormedResponses == {raw \in InboundResponses : ValidResponse(raw)}

\* The well-formed Responses whose id is, in the current state, the id of
\* no unresolved Pending Request.
StrayNow ==
    LET open == {TableKey(call[c].id) : c \in {d \in Calls : Outstanding(d)}}
    IN  {raw \in WellFormedResponses : PyStr(raw.id) \notin open}

\* The consumption tasks that can take the next message.
Receiving == {t \in Tasks : task[t].st = "recv" /\ ~task[t].cancel}

\* C8: an inbound Response whose id matches no Pending Request, or one that
\* is already resolved, is discarded: no call and no entry of the
\* correlation table changes, nothing is transmitted and no transmission is
\* attempted, and the consumption task goes on receiving.
C8_StrayResponseDiscarded ==
    [][\A t \in Receiving :
            \A raw \in StrayNow :
            \/ /\ call' = call
               /\ pending_requests' = pending_requests
               /\ sent' = << >>
               /\ ~send_failed'
               /\ task' = task
               /\ task'[t].st = "recv"
            \/ ~Receive(t, raw)]_vars

\* a second Response can arrive for a Pending Request that is resolved and
\* still in the table, one for an id never allocated, and one for a call
\* that has timed out, all while another Pending Request is unresolved
C8_Witness ==
    \E t \in Tasks, c \in Calls, d \in Calls :
        /\ Outstanding(d)
        /\ call[c].pc = "waiting"
        /\ call[c].future.st = "result"
        /\ TableKey(call[c].id) \in DOMAIN pending_requests
        /\ ENABLED Receive(t, ErrorResponse(IntId(call[c].id), PeerError))
        /\ ENABLED Receive(t, ResultResponse(IntId(MaxCalls + 1), "R1"))

\* C9: a Response whose id is the integer n and a Response whose id is the
\* string of the decimal digits of n both resolve the unresolved Pending
\* Request that send_request created with id n: with the result of the
\* Response, or with the remote error it carries.
C9_IdsCanonical ==
    [][\A c \in Calls :
            Outstanding(c) =>
            \A raw \in ResponsesFor(call[c].id), t \in Tasks :
            (ValidResponse(raw) /\ Receive(t, raw))
            => /\ Done(call'[c].future)
               /\ raw.error = NoError
                    => call'[c].future = SetResult(raw.result)
               /\ raw.error # NoError
                    => /\ call'[c].future.st = "exception"
                       /\ call'[c].future.exc.code = raw.error.code]_vars

\* a Response with the string form of an allocated id can arrive for an
\* unresolved Pending Request and resolves it
C9_Witness ==
    \E t \in Tasks, c \in Calls :
        /\ Outstanding(c)
        /\ call[c].id = 2
        /\ ENABLED (/\ Receive(t, ResultResponse(StrId("2"), "R1"))
                    /\ call'[c].future = SetResult("R1"))

\* the calls that were given an id
Allocated == {c \in Calls : call[c].id # 0}

\* C10: the ids send_request allocates are 1, 2, 3, ... in call order: the
\* k-th call that gets an id gets k, each allocation is the last allocated
\* id plus one, and no two calls ever have the same id, whatever became of
\* the earlier calls and however often the handler was stopped and started.
C10_IdsSequential ==
    /\ [](\A c \in Allocated :
            call[c].id = Cardinality({d \in Allocated : d <= c}))
    /\ [](\A c \in Allocated, d \in Allocated : call[c].id = call[d].id => c = d)
    /\ [](sequence_number = Cardinality(Allocated))
    /\ [][\A c \in Calls :
            (call[c].id = 0 /\ call'[c].id # 0)
            => call'[c].id = sequence_number + 1]_vars
    /\ [][\A c \in Calls : call[c].id # 0 => call'[c].id = call[c].id]_vars

\* the first call failed when the handler was stopped, the handler was
\* started again, and the next call got id 2
C10_Witness ==
    /\ call[1].id = 1
    /\ call[1].exc = StoppedError
    /\ message_task = 2
    /\ running
    /\ call[2].id = 2
    /\ call[2].pc = "waiting"

\* C11: send_request, send_notification and send_response called while the
\* handler is not Running raise the "handler not running" error and do
\* nothing else: the transport is not called, no id is allocated, no Pending
\* Request is created, and no call in progress is touched.
C11_NotRunningRejected ==
    /\ [][\A c \in Calls :
            (~running /\ SendRequest(c, ArgsOf(c)))
            => /\ raised'.kind = "notrunning"
               /\ call'[c].pc = "raised"
               /\ call'[c].exc.kind = "notrunning"
               /\ call'[c].id = 0
               /\ call'[c].future.st = "none"
               /\ \A d \in Calls \ {c} : call'[d] = call[d]
               /\ sent' = << >>
               /\ ~send_failed'
               /\ sequence_number' = sequence_number
               /\ pending_requests' = pending_requests]_vars
    /\ [][\A m \in OutboundMethods, p \in OutboundParams :
            (~running /\ SendNotification(m, p))
            => /\ raised'.kind = "notrunning"
               /\ sent' = << >>
               /\ ~send_failed'
               /\ UNCHANGED <<sequence_number, pending_requests, call>>]_vars
    /\ [][\A id \in OutboundIds, r \in OutboundResults, e \in OutboundErrors :
            (~running /\ SendResponse(id, r, e))
            => /\ raised'.kind = "notrunning"
               /\ sent' = << >>
               /\ ~send_failed'
               /\ UNCHANGED <<sequence_number, pending_requests, call>>]_vars
    /\ [](raised.kind = "notrunning" => sent = << >> /\ ~send_failed)

\* after a stop() that failed the first call, a second send_request was
\* refused without an id, and the call just made was refused too
C11_Witness ==
    /\ ~running
    /\ message_task # NoTask
    /\ TaskDone(message_task)
    /\ call[1].exc = StoppedError
    /\ call[2].exc = NotRunningError
    /\ call[2].id = 0
    /\ sequence_number = 1
    /\ raised = NotRunningError

\* a transmitted message is a Response: it has an id and no method
IsResponse(msg) == msg.id # AbsentId /\ ~HasKey(msg.method)

\* C12: every Response handed to the transport has a result or an error and
\* not both; and a send_response call given both a result and an error, or
\* neither, raises and hands nothing to the transport.
C12_ExactlyOneOfResultError ==
    /\ [](\A i \in 1..Len(sent) :
            IsResponse(sent[i])
            => HasKey(sent[i].result) # (sent[i].error # NoError))
    /\ [][\A id \in OutboundIds, r \in OutboundResults, e \in OutboundErrors :
            (/\ (r = "absent") = (e = NoError)
             /\ SendResponse(id, r, e))
            => /\ raised' # NoExc
               /\ sent' = << >>
               /\ ~send_failed']_vars

\* a send_response call on a Running handler was refused for its fields
C12_Witness ==
    /\ running
    /\ raised = ResponseInvalidError
    /\ sent = << >>

\* the code a Response for a failed handler is to carry: the code the raised
\* error signals, INTERNAL_ERROR when it signals none
SignalledCode(e) == IF e.code = 0 THEN INTERNAL_ERROR ELSE e.code

\* C13: when the handler of an inbound Request raises and the transport
\* accepts the reply, exactly one Response is sent for the Request; its
\* error.message is the failure's message and its error.code is the code the
\* raised error signals, INTERNAL_ERROR when it signals none.
C13_HandlerErrorCode ==
    [][\A t \in Tasks, e \in HandlerErrors :
            (/\ task[t].kind = "request"
             /\ HandlerRaise(t, e)
             /\ ~send_failed')
            => /\ Len(sent') = 1
               /\ sent'[1].id = task[t].msg.id
               /\ sent'[1].error.message = e.text
               /\ sent'[1].error.code = SignalledCode(e)]_vars

\* the error Responses the peer may send for the id n
ErrorsFor(n) == {raw \in ResponsesFor(n) : raw.error # NoError}

\* C14: a Response carrying `error` and the id of an unresolved Pending
\* Request fails that Pending Request with an error carrying the remote
\* error's code and message and changes no other call and no table entry;
\* the suspended call then raises that error and returns no result.
C14_RemoteErrorRaised ==
    /\ [][\A c \in Calls :
            Outstanding(c) =>
            \A raw \in ErrorsFor(call[c].id), t \in Tasks :
            Receive(t, raw)
            => /\ call'[c].future.st = "exception"
               /\ call'[c].future.exc.kind = "rpc"
               /\ call'[c].future.exc.code = raw.error.code
               /\ call'[c].future.exc.message = raw.error.message
               /\ \A d \in Calls \ {c} : call'[d] = call[d]
               /\ pending_requests' = pending_requests]_vars
    /\ [][\A c \in Calls :
            (call[c].future.st = "exception" /\ call'[c] # call[c])
            => /\ call'[c].pc = "raised"
               /\ call'[c].exc = call[c].future.exc
               /\ call'[c].result = ""]_vars
    /\ [](\A c \in Calls :
            call[c].exc.kind = "rpc"
            => call[c].pc = "raised" /\ call[c].result = "")

\* one call has raised the remote error while the other is still suspended
\* on its unresolved Pending Request
C14_Witness ==
    \E c \in Calls, d \in Calls :
        /\ call[c].pc = "raised"
        /\ call[c].exc.kind = "rpc"
        /\ call[c].exc.code = PeerError.code
        /\ call[c].exc.message = PeerError.message
        /\ Outstanding(d)

\* the message {"jsonrpc": "2.0", "id": n}: an id, no method, no result and
\* no error
BareResponse(n) == Msg("2.0", IntId(n), "absent", "absent", "absent", NoError)

\* C15: a message with the id of an unresolved Pending Request and no
\* method, no error and no result fulfils that Pending Request with the
\* empty mapping, which the suspended call then returns.
C15_BareResponseFulfils ==
    [][\A c \in Calls :
            Outstanding(c) =>
            \A t \in Tasks :
            Receive(t, BareResponse(call[c].id))
            => call'[c].future = SetResult("{}")]_vars

\* the send_request calls that are in progress
InProgress == {c \in Calls : call[c].pc = "waiting"}

\* C16: the id of a send_request call that has returned or raised, by
\* whatever exit path, is not a key of the correlation table; every key of
\* the table is the id of a call in progress; and when no call is in
\* progress the table is empty.
C16_NoLeak ==
    /\ \A c \in Calls :
            call[c].pc \in {"returned", "raised"}
            => /\ call[c].id # 0 => TableKey(call[c].id) \notin DOMAIN pending_requests
               /\ \A k \in DOMAIN pending_requests : pending_requests[k] # c
    /\ DOMAIN pending_requests \subseteq {TableKey(call[c].id) : c \in InProgress}
    /\ InProgress = {} => pending_requests = EmptyTable

\* one call left by cancellation of its caller and one by a timeout, both
\* with an id, and the table is empty
C16_Witness ==
    \E c \in Calls, d \in Calls :
        /\ call[c].exc = CallerCancelledError
        /\ call[c].id # 0
        /\ call[d].exc.kind = "timeout"
        /\ pending_requests = EmptyTable
        /\ running

\* the consumption tasks that exist and have not finished
AliveTasks == {t \in Tasks : TaskAlive(t)}

\* C17: start() on a Stopped handler makes it Running and creates exactly
\* one consumption task; start() on a Running handler changes nothing; and
\* at no time are two consumption tasks of the handler alive.
C17_OneConsumptionTask ==
    /\ [][(Start /\ ~running)
            => /\ running'
               /\ Cardinality(AliveTasks' \ AliveTasks) = 1
               /\ message_task' \in AliveTasks' \ AliveTasks]_vars
    /\ [][(Start /\ running) => UNCHANGED vars]_vars
    /\ [](Cardinality(AliveTasks) <= 1)

\* C18: while the handler of an inbound Request is executing, a Response
\* for an outstanding send_request can be dispatched: the consumption task
\* takes it and resolves the Pending Request with its result without the
\* handler having finished.
C18_ResponseDuringHandler ==
    \A t \in Tasks, c \in Calls :
        (/\ task[t].st = "handler"
         /\ task[t].kind = "request"
         /\ message_task = t
         /\ Outstanding(c))
        => \E u \in Tasks :
              ENABLED (/\ Receive(u, ResultResponse(IntId(call[c].id), "R1"))
                       /\ call'[c].future = SetResult("R1"))

\* Whether a sequence holds no value twice.
NoRepeats(seq) ==
    \A i, j \in DOMAIN seq : seq[i] = seq[j] => i = j

\* C19: on a connected stdio or websocket transport driven by a started
\* Protocol Handler, no inbound message is taken and dropped by another
\* reader of the channel, no message reaches the handler twice, and the
\* handler's consumption loop is not ended by the transport's own
\* background reader waiting on the same channel.
C19_DeliveredExactlyOnce ==
    transport.kind \in StreamKinds =>
        /\ dropped = << >>
        /\ NoRepeats(delivered)
        /\ readers["loop"].cause # "concurrent"

\* C20: on every transport no reader's receive_messages() sequence is
\* terminated by a malformed frame (invalid JSON, or JSON that is no
\* object); such a frame is skipped.
C20_MalformedFrameSkipped ==
    \A r \in Readers : readers[r].cause # "decode"

\* C24: a valid Request, Response or Notification that is encoded for the
\* wire and decoded again is classified as the kind that was encoded and
\* validates to an equal message: same id, method, params, result, error.
C24_RoundTrip ==
    codec.stage = "back" =>
        /\ codec.as = codec.obj.kind
        /\ codec.back = codec.obj

C24_Witness ==
    /\ codec.stage = "back"
    /\ codec.obj.kind = "response"
    /\ codec.obj.result = "{}"
    /\ codec.obj.id = StrId("7")
    /\ codec.back = codec.obj

\* C25: registering a handler for a method that already has one replaces
\* it.  Every register_* call leaves its handler, and only it, registered
\* for the method; nothing but register_* and unregister_handler changes a
\* registration; an inbound Request or Notification invokes the handler
\* registered for its method at that moment, once: the handler it awaits
\* does not change until the loop is back at receiving.
C25_LastRegistrationWins ==
    [][/\ \A m \in Methods, h \in HandlerIds :
             /\ RegisterRequestHandler(m, h) =>
                    /\ request_handlers'[m] = h
                    /\ notification_handlers' = notification_handlers
             /\ RegisterNotificationHandler(m, h) =>
                    /\ notification_handlers'[m] = h
                    /\ request_handlers' = request_handlers
       /\ (request_handlers' # request_handlers
              \/ notification_handlers' # notification_handlers) =>
             \/ \E m \in Methods, h \in HandlerIds :
                    RegisterRequestHandler(m, h)
                        \/ RegisterNotificationHandler(m, h)
             \/ \E m \in Methods : UnregisterHandler(m)
       /\ \A t \in Tasks :
             /\ (task[t].st = "recv" /\ task'[t].st = "handler") =>
                   LET m == task'[t].msg.method IN
                   task'[t].handler =
                       IF task'[t].kind = "request"
                       THEN request_handlers[m]
                       ELSE notification_handlers[m]
             /\ (task[t].st = "handler" /\ task'[t].st = "handler") =>
                   /\ task'[t].handler = task[t].handler
                   /\ task'[t].msg = task[t].msg]_vars

\* h2 is registered only for a method that has a handler: the handler
\* invoked is the one that replaced another.
C25_Witness ==
    \E t \in Tasks :
        /\ task[t].st = "handler"
        /\ task[t].kind = "request"
        /\ task[t].handler = "h2"
        /\ request_handlers[task[t].msg.method] = "h2"

\* C27: the Protocol Handler never retries a transmission.  No step of it
\* (a send_request, send_notification or send_response call, or the
\* processing of one inbound message) calls transport.send_message more
\* than once: after a send has failed no further send is attempted.
C27_NoRetry ==
    [][send_calls' <= 1]_vars

\* The inbound messages that fail shape validation.
InvalidShape(raw) ==
    \/ Classify(raw) \in {"notdict", "badversion", "invalid"}
    \/ Classify(raw) = "request" /\ ~ValidRequest(raw)
    \/ Classify(raw) = "response" /\ ~ValidResponse(raw)
    \/ Classify(raw) = "notification" /\ ~ValidNotification(raw)

\* C30: a failure while one inbound message is processed (its handler
\* raises, its shape is invalid, or the reply cannot be sent) leaves the
\* consumption task receiving and leaves every Pending Request and every
\* send_request call as it was.
C30_FailureIsolated ==
    [][\A t \in Tasks :
          (\/ \E e \in HandlerErrors : HandlerRaise(t, e)
           \/ \E raw \in FailureInbound : InvalidShape(raw) /\ Receive(t, raw)
           \/ /\ send_failed'
              /\ \/ \E raw \in FailureInbound : Receive(t, raw)
                 \/ \E r \in HandlerResults : HandlerReturn(t, r))
          => /\ task'[t].st = "recv"
             /\ ~task'[t].cancel
             /\ pending_requests' = pending_requests
             /\ call' = call]_vars

\* a reply could not be sent while a send_request call is waiting, and the
\* task is back at receiving
C30_Witness ==
    /\ send_failed
    /\ send_calls > 1
    /\ \E c \in Calls :
           /\ call[c].pc = "waiting"
           /\ ~Done(call[c].future)
           /\ Has(pending_requests, TableKey(call[c].id))
    /\ \E t \in Tasks : task[t].st = "recv" /\ message_task = t

\* C21: on every transport, send_message and receive_messages invoked while
\* the transport is not connected fail at once with the connection error
\* itself: one execution of the body, no write or post, no backoff wait
\* begun, ConnectionError surfaced to the caller.
C21_NotConnectedFailsAtOnce ==
    [][/\ \A o \in SendOutcomes :
             (SendAttempt(o) /\ sender.pc # "backoff" /\ ~transport.connected)
             => /\ sender'.pc = "raised"
                /\ sender'.exc = "ConnectionError"
                /\ sender'.attempts = 1
                /\ sender'.io = 0
                /\ sender'.waits = 0
       /\ (LoopBegins /\ ~transport.connected)
             => readers'["loop"] = [st |-> "failed", cause |-> "notconnected"]
      ]_vars

\* C22: disconnect() on a connected transport leaves it not connected, its
\* receive task not running, every correlation that was pending failed with
\* the "connection closed" error and the pending table empty; disconnect()
\* on a transport that is not connected changes nothing.
C22_DisconnectFailsPending ==
    [][\A io_ok \in BOOLEAN :
          Disconnect(io_ok) =>
             IF transport.connected
             THEN /\ ~transport'.connected
                  /\ ~ReceiverAlive'
                  /\ transport.pending \subseteq transport'.failed
                  /\ transport'.pending = {}
             ELSE UNCHANGED <<transport, readers, channel>>]_vars

\* C23: a connect() call that finds the transport connected returns
\* without an attempt to establish a channel and without creating a receive
\* task; a connect() call that fails leaves the caller with ConnectionError
\* and the transport not connected.
C23_ConnectIdempotentOrError ==
    [][\A ok \in BOOLEAN :
          ConnectAttempt(ok) =>
             /\ transport.connected =>
                    /\ connector'.pc = "returned"
                    /\ connector'.attempts = connector.attempts
                          \/ connector'.attempts = 0
                    /\ ~connector'.spawned
                    /\ UNCHANGED <<transport, readers, channel>>
             /\ connector'.pc = "raised" =>
                    /\ connector'.exc = "ConnectionError"
                    /\ ~transport'.connected]_vars

\* C29: WebSocketTransport.connect() makes at most StopAfterAttempt
\* attempts; a successful attempt ends the call; when every attempt has
\* failed the caller gets ConnectionError, the transport is not connected
\* and the call has created no receive task.
C29_ConnectRetriesBounded ==
    [][\A ok \in BOOLEAN :
          (ConnectAttempt(ok) /\ transport.kind = "websocket") =>
             /\ connector'.attempts <= StopAfterAttempt
             /\ (ok /\ ~transport.connected) =>
                    /\ connector'.pc = "returned"
                    /\ transport'.connected
             /\ connector'.pc = "raised" =>
                    /\ connector'.attempts = StopAfterAttempt
                    /\ connector'.exc = "ConnectionError"
                    /\ ~transport'.connected
                    /\ ~connector'.spawned]_vars

\* C26: HttpTransport.receive_messages never issues a poll request without
\* having waited poll_interval since the previous one, whatever the
\* previous poll returned.
C26_PollsSpaced ==
    [][\A k \in 0..MaxFrames, ok \in BOOLEAN :
          (Poll(k, ok) /\ ~transport.closed /\ polling.polled)
             => polling.waited]_vars

\* C28: when a reader of a connected WebSocketTransport finds the
\* connection closed by the peer, its inbound sequence ends without raising
\* and the transport is not connected afterwards; when the close was
\* abnormal, every correlation pending at that moment is failed and the
\* pending table left empty.
C28_PeerCloseDisconnects ==
    [][\A r \in Readers :
          (/\ Read(r)
           /\ transport.kind = "websocket"
           /\ transport.connected
           /\ channel.buffer = << >>
           /\ channel.eof)
          => /\ readers'[r].st = "ended"
             /\ ~transport'.connected
             /\ channel.abnormal =>
                    /\ transport.pending \subseteq transport'.failed
                    /\ transport'.pending = {}]_vars

\* C31: an inbound message whose protocol version is absent or is not "2.0"
\* invokes no request or notification handler and resolves no Pending
\* Request, whatever id, method, result and error it carries.
C31_BadVersionRejected ==
    [][\A t \in Tasks :
          \A raw \in VersionInbound :
            \/ /\ task' = task
               /\ call' = call
               /\ pending_requests' = pending_requests
            \/ raw.jsonrpc = "2.0"
            \/ ~Receive(t, raw)]_vars

\* a message of another version that carries the id of an unresolved
\* Pending Request has been answered with INTERNAL_ERROR while handlers for
\* its method are registered
C31_Witness ==
    /\ \E c \in Calls : Outstanding(c) /\ call[c].id = 1
    /\ \A m \in Methods :
           Has(request_handlers, m) /\ Has(notification_handlers, m)
    /\ ~send_failed
    /\ sent = <<ResponseMsg(IntId(1), "absent",
                            MkError(INTERNAL_ERROR, "Internal error"))>>

\* C32: whenever the handler is Running its consumption task exists and
\* has not finished, also after the transport's inbound sequence has ended
\* or raised.
C32_RunningHasTask ==
    running => (message_task # NoTask /\ TaskAlive(message_task))

\* C33: every Response transmitted for an inbound Request carries the id of
\* that Request, of the same type and value, whether it reports the
\* handler's result or an error.
C33_ResponseIdIsRequestId ==
    [][\A t \in Tasks :
          /\ \A r \in HandlerResults :
                (HandlerReturn(t, r) /\ task[t].kind = "request")
                => \A i \in 1..Len(sent') : sent'[i].id = task[t].msg.id
          /\ \A e \in HandlerErrors :
                (HandlerRaise(t, e) /\ task[t].kind = "request")
                => \A i \in 1..Len(sent') : sent'[i].id = task[t].msg.id
          /\ \A raw \in InboundRequests :
                Receive(t, raw)
                => \A i \in 1..Len(sent') : sent'[i].id = raw.id]_vars

\* The inbound Requests: objects of version "2.0" with a method and with an
\* id that is a string or an integer.
RequestShaped ==
    {raw \in InboundRequests : Classify(raw) = "request" /\ ValidId(raw.id)}

\* C34: for an inbound Request at most one Response is transmitted, whatever
\* the handler does and whichever sends fail: none when the Request is
\* handed to a handler, which answers when it returns or raises, and at most
\* one in the step that finishes the Request.  That step transmits exactly
\* one when the handler is Running and no send fails.
C34_OneResponsePerRequest ==
    [][\A t \in Tasks :
          /\ \A raw \in RequestShaped :
                \/ /\ Len(sent') <= 1
                   /\ task'[t].st = "handler" => sent' = << >>
                   /\ (running /\ ~send_failed' /\ task'[t].st # "handler")
                         => Len(sent') = 1
                \/ ~Receive(t, raw)
          /\ (/\ task[t].kind = "request"
              /\ \/ \E r \in HandlerResults : HandlerReturn(t, r)
                 \/ \E e \in HandlerErrors : HandlerRaise(t, e))
             => /\ Len(sent') <= 1
                /\ task'[t].st = "recv"
                /\ (running /\ ~send_failed') => Len(sent') = 1]_vars

\* the handler of a Request has returned, the send of its result failed and
\* the error Response that followed was transmitted
C34_Witness ==
    /\ running
    /\ send_failed
    /\ send_calls = 2
    /\ Len(sent) = 1
    /\ sent[1].id = IntId(7)
    /\ sent[1].error.code = INTERNAL_ERROR
    /\ sent[1].error.message = "Failed to send message"

\* C35: inbound messages are dispatched one at a time, in the order the
\* transport yields them: no message is taken and dispatched while the
\* processing of an earlier one (its handler, and the Response that follows)
\* has not finished, so handlers never overlap and Responses leave in the
\* order of the Requests.
C35_OneAtATime ==
    [][\A t \in Tasks :
          \A raw \in Inbound :
             Receive(t, raw) => \A u \in Tasks : task[u].st # "handler"]_vars


\* C36: whenever the last MCPServer.start() call has raised, the transport
\* is not connected and the Protocol Handler is not Running.
C36_FailedStartCleansUp ==
    server.failed => (~transport.connected /\ ~running)

\* C37: a tools/list or tools/call Request handled before the server is
\* initialized gets an error Response and touches no tool; an initialize
\* Request whose params are valid marks the server initialized and gets a
\* result, one whose params are invalid leaves the server as it was; once
\* the server is initialized a tools/list Request gets a result.
C37_InitializeGatesTools ==
    [][\A t \in Tasks :
          /\ \/ /\ tool' = tool /\ registry' = registry
                /\ \A k \in DOMAIN sent' : sent'[k].error # NoError
                /\ (running /\ ~send_failed') => Len(sent') = 1
             \/ server.initialized
             \/ /\ ~HandleToolsList(t)
                /\ \A ok \in BOOLEAN, ex \in ExecuteOutcomes :
                      ~HandleToolsCall(t, ok, ex)
          /\ \/ IF InitializeParamsKeys \subseteq ParamsKeys(task[t].msg.params)
                THEN /\ server'.initialized
                     /\ \A k \in DOMAIN sent' : sent'[k].error = NoError
                ELSE server'.initialized = server.initialized
             \/ ~HandleInitialize(t)
          /\ \/ \A k \in DOMAIN sent' : sent'[k].error = NoError
             \/ ~server.initialized
             \/ ~HandleToolsList(t)]_vars

\* C38: when the delayed shutdown stops a running server, no consumption
\* task is still transmitting the Response to the shutdown Request.
C38_ResponseBeforeStop ==
    [][\A oks \in ImplOutcomes :
          \/ \A t \in Tasks :
                ~(task[t].st = "handler" /\ task[t].handler = "send_response")
          \/ ~server.running
          \/ ~DelayedShutdown(oks)]_vars

\* C39: the tool lifecycle.  initialize() that returns leaves the tool
\* initialized, and on an initialized tool changes nothing and runs no
\* hook; cleanup() leaves the tool uninitialized, and on an uninitialized
\* tool changes nothing and runs no hook; after cleanup_all() the registry
\* holds no instance and every instance create_tool has made is
\* uninitialized, whether the tools' own cleanup logic returns or raises.
C39_ToolLifecycle ==
    [][/\ \A i \in Instances, ok \in BOOLEAN :
            \/ /\ registry'.last.outcome = "returned" => tool'[i].initialized
               /\ tool[i].initialized =>
                      tool'[i] = tool[i] /\ ~registry'.last.impl
            \/ ~ToolInitialize(i, ok)
       /\ \A i \in Instances, ok \in BOOLEAN :
            \/ /\ ~tool'[i].initialized
               /\ ~tool[i].initialized =>
                      tool'[i] = tool[i] /\ ~registry'.last.impl
            \/ ~ToolCleanup(i, ok)
       /\ \A oks \in ImplOutcomes :
            \/ /\ registry'.tools = << >>
               /\ \A i \in Instances : Made(i) => ~tool'[i].initialized
            \/ ~CleanupAll(oks)]_vars

\* C40: Tool.call does not invoke execute when the initialization it makes
\* fails or when the arguments lack a required field or hold a field of a
\* type the schema does not accept; in both cases, and when execute raises,
\* the call raises a ToolError; a failed initialization leaves the tool
\* uninitialized.
C40_CallFailsWithToolError ==
    LET d == registry.last
        a == ArgumentsOf(d.input.arguments)
        init_fails == ~d.input.was /\ ~d.input.init_ok IN
    d.op = "call" =>
        /\ (init_fails \/ ~a.dict \/ MissingRequired(a) \/ WrongType(a)) =>
               ~d.executed /\ d.outcome \in ToolErrors
        /\ (d.executed /\ d.input.ex # "ok") => d.outcome \in ToolErrors
        /\ init_fails => ~tool[d.inst].initialized

\* a call on an initialized tool with a field of the wrong type has failed
C40_Witness ==
    /\ registry.last.op = "call"
    /\ registry.last.input.arguments = "page_size:str"
    /\ registry.last.outcome \in ToolErrors
    /\ ~registry.last.executed
    /\ tool[registry.last.inst].initialized

====
